---------------------------- MODULE Spec2Model ----------------------------
(***************************************************************************)
(* State-machine model of the PDF tools of toolhere/tools:                 *)
(*   - the Split tool      (src/components/tools/SplitPDF.tsx)             *)
(*   - the Merge tool      (src/tools/MergePDF.tsx)                        *)
(*   - the Rotate tool     (src/components/tools/JPGToPDF.tsx, RotatePDF)  *)
(*   - the OCR tool        (src/components/tools/OCRPDF.tsx)               *)
(* A text is a sequence of one-character strings, so that formatting and   *)
(* parsing of the page-range expression are computed character by          *)
(* character, as the code computes them.                                   *)
(***************************************************************************)
EXTENDS Integers, Sequences, FiniteSets, TLC

VARIABLES
    \* ---- page-range functions applied to drawn inputs (SpecRange)
    rKind,          \* "set": the input is an index set; "text": a typed text
    rMax,           \* the document size handed to parseRangeText as max
    rTyped,         \* the typed text (rKind = "text")
    rSet,           \* the index set, in insertion order (a JS Set<number>)
    rText,          \* range text derived from rSet by updateRangeFromSet
    rBack,          \* parseRangeText(rText, rMax)
    rPc             \* "typed" | "set" | "text" | "done"

rangeVars == <<rKind, rMax, rTyped, rSet, rText, rBack, rPc>>

VARIABLES
    \* ---- Split tool: the state of the SplitPDF component
    pdfInfo,        \* NoPdf or the metadata of the loaded document
    splitMode,      \* "range" | "all"
    selectedPages,  \* Set<number>: 0-based indices in insertion order
    rangeText,      \* the range text field
    thumbnails,     \* the previews, thumbnails[i + 1] of page i
    isProcessing,   \* the busy flag
    progress,       \* 0..100
    error,          \* NoError or a message
    \* ---- Split tool: a handleFileChange call in flight
    \* (loadPc[k], loadFile[k], loadThumbs[k] for the k-th call at a time)
    loadPc,         \* "idle" | "decode" | "thumbs" | "finish"
    loadFile,       \* the file being loaded
    loadThumbs,     \* its local array thumbs
    \* ---- Split tool: a handleSplit call in flight, with what its closure holds
    splitPc,        \* "idle" | "load" | "extract" | "burst" | "zip"
    splitJob,       \* pdfInfo and splitMode as the closure of the call holds them
    splitIndices,   \* range mode: the index list of line 165
    splitI,         \* all mode: the loop counter i
    splitZip,       \* all mode: the entries of the JSZip archive
    timers,         \* pending setTimeout callbacks of finished handleSplit calls
    \* ---- Split tool: what downloadBlob has handed to the browser
    downloads       \* number of downloads triggered since the last click on Split

splitState == <<pdfInfo, splitMode, selectedPages, rangeText, thumbnails,
                isProcessing, progress, error>>

splitVars == <<splitState, loadPc, loadFile, loadThumbs, splitPc, splitJob,
               splitIndices, splitI, splitZip, timers, downloads>>

VARIABLES
    \* ---- Merge tool: the state of the MergePDF component
    files,          \* the merge queue: FileItem[]
    isMerging,      \* the busy flag
    mergeProgress,  \* 0..100
    errorMessage,   \* NoMessage or the message of the files skipped as too large
    numbering,      \* options.enabled
    \* ---- Merge tool: a handleMerge call in flight, with what its closure holds
    mergePc,        \* "idle" | "copy" | "number" | "save"
    mergeJob,       \* files and options.enabled as the closure of the call holds them
    mergeI,         \* the loop counter i of the running loop
    mergedPdf,      \* the pages of mergedPdf
    mergeTimer,     \* whether the setTimeout callback of line 209 is pending
    mergeDownloads, \* number of downloads triggered since the last click on Merge
    \* ---- Merge tool: the drag of a queue item, the alerts
    draggedIndex,   \* NoDraggedIndex or the 0-based position of the item dragged
    lastAlert,      \* NoError or the message of the alert() of the last handleMerge call
    \* ---- Merge tool: the object URLs of the page
    mergeUrls       \* number of URLs made by URL.createObjectURL and not revoked

mergeAux == <<draggedIndex, lastAlert, mergeUrls>>

mergeVars == <<files, isMerging, mergeProgress, errorMessage, numbering,
               mergePc, mergeJob, mergeI, mergedPdf, mergeTimer, mergeDownloads,
               mergeAux>>

VARIABLES
    \* ---- Rotate tool: the state of the RotatePDF component
    rotatePdfInfo,        \* pdfInfo: NoPdf or the metadata and the file loaded
    rotateSelectedPages,  \* selectedPages: 0-based indices in insertion order
    rotateThumbnails,     \* thumbnails
    rotateIsProcessing,   \* isProcessing
    rotationProgress,     \* rotationProgress
    rotateError,          \* error: NoError or a message
    \* ---- Rotate tool: a handleFileChange call in flight
    rotateLoadPc,         \* "idle" | "decode" | "thumbs" | "finish"
    rotateLoadFile,       \* the file being loaded
    rotateLoadThumbs,     \* its local array thumbs
    \* ---- Rotate tool: a handleRotate call
    rotatePc,             \* "idle" | "load"
    rotateJob,            \* pdfInfo, selectedPages and angle as the closure holds them
    rotateCall,           \* "none", or how handleRotate was entered if it is the
                          \* handler that ran last: "emptySelection" | "selection"
    \* ---- Rotate tool: what the browser was handed
    rotateOutput,         \* NoPdf or the file of the last download
    rotateDownloads       \* number of downloads triggered since the last click

rotateState == <<rotatePdfInfo, rotateSelectedPages, rotateThumbnails,
                 rotateIsProcessing, rotationProgress, rotateError>>

rotateVars == <<rotateState, rotateLoadPc, rotateLoadFile, rotateLoadThumbs,
                rotatePc, rotateJob, rotateCall, rotateOutput, rotateDownloads>>

VARIABLES
    \* ---- OCR tool: the state of the OCRPDF component
    ocrPdfMeta,       \* pdfMeta: NoPdf or the metadata and the file loaded
    ocrIsProcessing,  \* isProcessing
    ocrProgress,      \* progress
    ocrError,         \* error: NoError or a message
    \* ---- OCR tool: a handleFileChange call in flight
    ocrLoadPc,        \* "idle" | "decode"
    ocrLoadFile,      \* the file being loaded
    \* ---- OCR tool: a runOCR call in flight, with what its closure holds
    ocrPc,            \* "idle" | "worker" | "load" | "pages" | "save"
    ocrJob,           \* pdfMeta as the closure of the call holds it
    ocrI,             \* pages of the loop of line 84 done
    ocrDownloads,     \* number of downloads triggered since the last click
    \* ---- OCR tool: the recognition workers
    ocrWorkers        \* workers created by createWorker and not terminated

ocrVars == <<ocrPdfMeta, ocrIsProcessing, ocrProgress, ocrError, ocrLoadPc,
             ocrLoadFile, ocrPc, ocrJob, ocrI, ocrDownloads, ocrWorkers>>

VARIABLES
    \* ---- PDF to JPG tool: the state of the PDFToJPG component
    jpgPdfInfo,       \* pdfInfo: NoPdf or the document loaded
    jpgIsProcessing,  \* isProcessing
    jpgProgress,      \* progress
    jpgError,         \* error: NoError or a message
    \* ---- PDF to JPG tool: a handleFileChange call in flight
    jpgLoadPc,        \* "idle" | "decode"
    jpgLoadFile,      \* the file being loaded
    \* ---- PDF to JPG tool: a convertToImages call in flight
    jpgPc,            \* "idle" | "load" | "pages" | "zip"
    jpgJob,           \* pdfInfo as the closure of the call holds it
    jpgI,             \* pages of the loop of line 70 done
    jpgZip,           \* the entries of the archive in the making
    \* ---- PDF to JPG tool: what the browser was handed
    jpgOutput,        \* the entries of the archive downloaded last
    jpgDownloads      \* number of downloads triggered since the last click

jpgVars == <<jpgPdfInfo, jpgIsProcessing, jpgProgress, jpgError, jpgLoadPc,
             jpgLoadFile, jpgPc, jpgJob, jpgI, jpgZip, jpgOutput, jpgDownloads>>

VARIABLES
    \* ---- Passport photo tool: the state of the PassportPhotoTool component
    ppImage,          \* whether image and croppedAreaPixels are set
    ppSelectedPreset, \* selectedPreset, as its position in PRESETS
    ppIsProcessing,   \* isProcessing
    \* ---- Passport photo tool: a generatePhoto call in flight
    ppPc,             \* "idle" | "image"
    ppJob,            \* selectedPreset and mode as the call holds them
    \* ---- Passport photo tool: what the browser was handed
    ppOutput          \* the canvas downloaded last

ppVars == <<ppImage, ppSelectedPreset, ppIsProcessing, ppPc, ppJob, ppOutput>>

vars == <<rangeVars, splitVars, mergeVars, rotateVars, ocrVars, jpgVars, ppVars>>

\* what the steps of one part of the model leave alone
notRange == <<splitVars, mergeVars, rotateVars, ocrVars, jpgVars, ppVars>>

notSplit == <<rangeVars, mergeVars, rotateVars, ocrVars, jpgVars, ppVars>>

notMerge == <<rangeVars, splitVars, rotateVars, ocrVars, jpgVars, ppVars>>

notRotate == <<rangeVars, splitVars, mergeVars, ocrVars, jpgVars, ppVars>>

notOcr == <<rangeVars, splitVars, mergeVars, rotateVars, jpgVars, ppVars>>

notJpg == <<rangeVars, splitVars, mergeVars, rotateVars, ocrVars, ppVars>>

notPp == <<rangeVars, splitVars, mergeVars, rotateVars, ocrVars, jpgVars>>

-----------------------------------------------------------------------------
(* Bounds of the model *)

\* largest document size of the page-range round trip (two-digit page numbers)
MaxN == 11
\* longest typed range text
MaxLen == 4
\* largest page count of a document given to the Split tool
MaxPages == 3
\* pending timers of the Split tool above which no further job is started
MaxTimers == 2
\* longest merge queue
MaxQueue == 2
\* most handleRotate calls a page goes through, outputs being loaded again
MaxChain == 2
\* object URLs of the Merge tool above which no further merge is started
MaxUrls == 2

\* the recognition workers that may be alive at a time
MaxWorkers == 3

-----------------------------------------------------------------------------
(* Texts *)

DigitChars == <<"0", "1", "2", "3", "4", "5", "6", "7", "8", "9">>

IsDigit(c) == \E d \in 1..10 : DigitChars[d] = c

DigitVal(c) == (CHOOSE d \in 1..10 : DigitChars[d] = c) - 1

\* `${n}` of a template literal, for a non-negative integer n
RECURSIVE NumberToString(_)
NumberToString(n) ==
    IF n < 10 THEN <<DigitChars[n + 1]>>
    ELSE NumberToString(n \div 10) \o <<DigitChars[(n % 10) + 1]>>

\* String.prototype.split(sep), sep one character: "" gives [""]
RECURSIVE SplitFrom(_, _, _)
SplitFrom(s, sep, cur) ==
    IF s = <<>> THEN <<cur>>
    ELSE IF Head(s) = sep THEN <<cur>> \o SplitFrom(Tail(s), sep, <<>>)
    ELSE SplitFrom(Tail(s), sep, Append(cur, Head(s)))

StrSplit(s, sep) == SplitFrom(s, sep, <<>>)

\* Array.prototype.join(sep)
RECURSIVE StrJoin(_, _)
StrJoin(parts, sep) ==
    IF parts = <<>> THEN <<>>
    ELSE IF Len(parts) = 1 THEN parts[1]
    ELSE parts[1] \o sep \o StrJoin(Tail(parts), sep)

RECURSIVE TrimStart(_)
TrimStart(s) ==
    IF s # <<>> /\ Head(s) = " " THEN TrimStart(Tail(s)) ELSE s

RECURSIVE TrimEnd(_)
TrimEnd(s) ==
    IF s # <<>> /\ s[Len(s)] = " " THEN TrimEnd(SubSeq(s, 1, Len(s) - 1)) ELSE s

\* String.prototype.trim()
StrTrim(s) == TrimEnd(TrimStart(s))

\* String.prototype.includes(c), c one character
StrIncludes(s, c) == \E i \in 1..Len(s) : s[i] = c

NaN == [nan |-> TRUE, val |-> 0]

Num(n) == [nan |-> FALSE, val |-> n]

isNaN(x) == x.nan

\* the value of the longest prefix of decimal digits of s, having read acc
RECURSIVE DigitsPrefix(_, _)
DigitsPrefix(s, acc) ==
    IF s # <<>> /\ IsDigit(Head(s))
    THEN DigitsPrefix(Tail(s), 10 * acc + DigitVal(Head(s)))
    ELSE acc

\* parseInt(s) in radix 10: leading white space is skipped, a sign is read,
\* then the longest prefix of digits; what follows is ignored; NaN when there
\* is no digit.
parseInt(s) ==
    LET t == TrimStart(s)
        neg == t # <<>> /\ Head(t) = "-"
        u == IF neg THEN Tail(t) ELSE t
    IN IF u = <<>> \/ ~IsDigit(Head(u)) THEN NaN
       ELSE Num(IF neg THEN 0 - DigitsPrefix(u, 0) ELSE DigitsPrefix(u, 0))

-----------------------------------------------------------------------------
(* Arrays and sets of numbers *)

Range(s) == {s[i] : i \in 1..Len(s)}

\* Set.prototype.add: a JS Set keeps insertion order and holds no duplicates
SetAdd(set, x) == IF x \in Range(set) THEN set ELSE Append(set, x)

\* Set.prototype.delete
SetDelete(set, x) == SelectSeq(set, LAMBDA y : y # x)

RECURSIVE InsertSorted(_, _)
InsertSorted(sorted, x) ==
    IF sorted = <<>> THEN <<x>>
    ELSE IF x < Head(sorted) THEN <<x>> \o sorted
    ELSE <<Head(sorted)>> \o InsertSorted(Tail(sorted), x)

\* Array.from(set).sort((a, b) => a - b)
RECURSIVE SortAscending(_)
SortAscending(arr) ==
    IF arr = <<>> THEN <<>>
    ELSE InsertSorted(SortAscending(Tail(arr)), Head(arr))

Min(a, b) == IF a <= b THEN a ELSE b

Max(a, b) == IF a >= b THEN a ELSE b

-----------------------------------------------------------------------------
(* Split tool: the page selection and its range text *)

\* one token of the range text: a run of 0-based indices start..end, 1-based
RangeToken(start, end) ==
    IF start = end THEN NumberToString(start + 1)
    ELSE NumberToString(start + 1) \o <<"-">> \o NumberToString(end + 1)

\* a run is never continued: every index becomes a token of its own
ContinuesRunNever(next, end) == FALSE

\* whether sorted[i] continues the run ending at end (line 99)
ContinuesRun(next, end) == next = end + 1

\* the for loop of updateRangeFromSet and the push that follows it
RECURSIVE RangesLoop(_, _, _, _, _)
RangesLoop(sorted, i, start, end, ranges) ==
    IF i > Len(sorted) THEN Append(ranges, RangeToken(start, end))
    ELSE IF ContinuesRun(sorted[i], end)
         THEN RangesLoop(sorted, i + 1, start, sorted[i], ranges)
         ELSE RangesLoop(sorted, i + 1, sorted[i], sorted[i],
                         Append(ranges, RangeToken(start, end)))

\* updateRangeFromSet(set): the text it hands to setRangeText
updateRangeFromSet(set) ==
    LET sorted == SortAscending(set)
    IN IF Len(sorted) = 0 THEN <<>>
       ELSE StrJoin(RangesLoop(sorted, 2, sorted[1], sorted[1], <<>>),
                    <<",", " ">>)

\* the last page of the document is left out (i < max for i <= max)
PageInRangeExclusive(i, max) == i > 0 /\ i < max

\* whether 1-based page number i names a page of a document of max pages
PageInRange(i, max) == i > 0 /\ i <= max

\* for (i = lo; i <= hi; i++) if (i > 0 && i <= max) pages.add(i - 1)
RECURSIVE AddRange(_, _, _, _)
AddRange(pages, lo, hi, max) ==
    IF lo > hi THEN pages
    ELSE AddRange(IF PageInRange(lo, max) THEN SetAdd(pages, lo - 1) ELSE pages,
                  lo + 1, hi, max)

\* a mutant of AddPart: the range runs from start to end as they are typed
AddPartAsTyped(pages, part, max) ==
    IF StrIncludes(part, "-")
    THEN LET pieces == StrSplit(part, "-")
             start == parseInt(pieces[1])
             end == parseInt(pieces[2])
         IN IF ~isNaN(start) /\ ~isNaN(end)
            THEN AddRange(pages, start.val, end.val, max)
            ELSE pages
    ELSE LET page == parseInt(part)
         IN IF ~isNaN(page) /\ PageInRange(page.val, max)
            THEN SetAdd(pages, page.val - 1)
            ELSE pages

\* the body of parts.forEach in parseRangeText
AddPart(pages, part, max) ==
    IF StrIncludes(part, "-")
    THEN LET pieces == StrSplit(part, "-")
             start == parseInt(pieces[1])
             end == parseInt(pieces[2])
         IN IF ~isNaN(start) /\ ~isNaN(end)
            THEN AddRange(pages, Min(start.val, end.val),
                          Max(start.val, end.val), max)
            ELSE pages
    ELSE LET page == parseInt(part)
         IN IF ~isNaN(page) /\ PageInRange(page.val, max)
            THEN SetAdd(pages, page.val - 1)
            ELSE pages

RECURSIVE AddParts(_, _, _)
AddParts(pages, parts, max) ==
    IF parts = <<>> THEN pages
    ELSE AddParts(AddPart(pages, StrTrim(Head(parts)), max), Tail(parts), max)

\* parseRangeText(text, max): the sorted array of 0-based indices
parseRangeText(text, max) ==
    SortAscending(AddParts(<<>>, StrSplit(text, ","), max))

-----------------------------------------------------------------------------
(* Split tool: values of the component state *)

NoPdf == [loaded |-> FALSE]

NoError == "null"

ErrTooLarge == "File is too large for browser processing. Please use files under 100MB."

ErrLoad == "Could not load PDF. It might be corrupted or protected."

ErrSelect == "Please select at least one page to extract."

ErrSplit == "An error occurred during splitting."

NoJob == [started |-> FALSE]

\* the number of pages that get a thumbnail (line 65)
THUMBNAIL_LIMIT == 50

\* Math.round(num / den * 100), num >= 0, den > 0
RoundPercent(num, den) == (200 * num + den) \div (2 * den)

\* the state of the component after construction (lines 18-25), nothing in flight
InitSplitVars ==
    /\ pdfInfo = NoPdf
    /\ splitMode = "range"
    /\ selectedPages = <<>>
    /\ rangeText = <<>>
    /\ thumbnails = <<>>
    /\ isProcessing = FALSE
    /\ progress = 0
    /\ error = NoError
    /\ loadPc = [k \in 1..2 |-> "idle"]
    /\ loadFile = [k \in 1..2 |-> NoPdf]
    /\ loadThumbs = [k \in 1..2 |-> <<>>]
    /\ splitPc = "idle"
    /\ splitJob = NoJob
    /\ splitIndices = <<>>
    /\ splitI = 0
    /\ splitZip = <<>>
    /\ timers = 0
    /\ downloads = 0

-----------------------------------------------------------------------------
(* Merge tool: values of the component state *)

MAX_FILE_SIZE_MB == 50

MAX_FILE_SIZE_BYTES == MAX_FILE_SIZE_MB * 1024 * 1024

NoMessage == [shown |-> FALSE]

\* draggedIndex: null
NoDraggedIndex == -1

AlertTooFew == "Please add at least two PDF files to merge."

AlertMergeFailed == "Failed to merge PDFs. Please ensure files are not password protected."

\* `${n} file(s) skipped. Maximum size per file is ${MAX_FILE_SIZE_MB}MB.`
SkippedMessage(n) == [shown |-> TRUE, skipped |-> n, maxMB |-> MAX_FILE_SIZE_MB]

\* Math.round(num / den * scale), num >= 0, den > 0
RoundScaled(num, den, scale) == (2 * scale * num + den) \div (2 * den)

\* the state of the component after construction (lines 24-36), nothing in flight
InitMergeVars ==
    /\ files = <<>>
    /\ isMerging = FALSE
    /\ mergeProgress = 0
    /\ errorMessage = NoMessage
    /\ numbering = FALSE
    /\ mergePc = "idle"
    /\ mergeJob = NoJob
    /\ mergeI = 0
    /\ mergedPdf = <<>>
    /\ mergeTimer = FALSE
    /\ mergeDownloads = 0
    /\ mergeUrls = 0
    /\ draggedIndex = NoDraggedIndex
    /\ lastAlert = NoError

(* Values of the Rotate tool *)

ErrRotateSelect == "Please select at least one page to rotate."

ErrRotate == "An error occurred during rotation."

InitRotateVars ==
    /\ rotatePdfInfo = NoPdf
    /\ rotateSelectedPages = <<>>
    /\ rotateThumbnails = <<>>
    /\ rotateIsProcessing = FALSE
    /\ rotationProgress = 0
    /\ rotateError = NoError
    /\ rotateLoadPc = "idle"
    /\ rotateLoadFile = NoPdf
    /\ rotateLoadThumbs = <<>>
    /\ rotatePc = "idle"
    /\ rotateJob = NoJob
    /\ rotateCall = "none"
    /\ rotateOutput = NoPdf
    /\ rotateDownloads = 0

-----------------------------------------------------------------------------
(* Values of the OCR tool *)

ErrOcrLoad == "Could not load PDF. It may be corrupted."

ErrOcr == "OCR process failed. This is usually due to heavy memory usage on large documents."

\* the state of the component after construction (lines 18-23), nothing in flight
InitOcrVars ==
    /\ ocrPdfMeta = NoPdf
    /\ ocrIsProcessing = FALSE
    /\ ocrProgress = 0
    /\ ocrError = NoError
    /\ ocrLoadPc = "idle"
    /\ ocrLoadFile = NoPdf
    /\ ocrPc = "idle"
    /\ ocrJob = NoPdf
    /\ ocrI = 0
    /\ ocrDownloads = 0
    /\ ocrWorkers = 0

(* Values of the PDF to JPG tool *)

ErrJpgLoad == "Failed to load PDF. It might be corrupted or password protected."

ErrJpg == "An error occurred during conversion."

\* the state of the component after construction (lines 16-19), nothing in flight
InitJpgVars ==
    /\ jpgPdfInfo = NoPdf
    /\ jpgIsProcessing = FALSE
    /\ jpgProgress = 0
    /\ jpgError = NoError
    /\ jpgLoadPc = "idle"
    /\ jpgLoadFile = NoPdf
    /\ jpgPc = "idle"
    /\ jpgJob = NoPdf
    /\ jpgI = 0
    /\ jpgZip = <<>>
    /\ jpgOutput = <<>>
    /\ jpgDownloads = 0

(* Values of the Passport photo tool *)

NoCanvas == [kind |-> "none"]

\* the state of the component after construction (lines 129-137), nothing in
\* flight: selectedPreset is PRESETS[0]
InitPpVars ==
    /\ ppImage = FALSE
    /\ ppSelectedPreset = 1
    /\ ppIsProcessing = FALSE
    /\ ppPc = "idle"
    /\ ppJob = NoJob
    /\ ppOutput = NoCanvas

-----------------------------------------------------------------------------
(* The page-range functions applied to drawn inputs *)

RECURSIVE AscendingOf(_)
AscendingOf(S) ==
    IF S = {} THEN <<>>
    ELSE LET m == CHOOSE x \in S : \A y \in S : x <= y
         IN <<m>> \o AscendingOf(S \ {m})

Reverse(s) == [i \in 1..Len(s) |-> s[Len(s) + 1 - i]]

\* the characters a typed range text is made of
TextChars == {"0", "1", "2", "-", ",", " ", "a"}

TypedTexts == UNION {[1..n -> TextChars] : n \in 0..MaxLen}

\* the document sizes a typed text is parsed against
TypedMaxes == {0, 2, MaxN}

\* the page-range inputs when another part of the model runs
InitRangeVars ==
    /\ rKind = "set"
    /\ rMax = 0
    /\ rTyped = <<>>
    /\ rSet = <<>>
    /\ rText = <<>>
    /\ rBack = <<>>
    /\ rPc = "done"

InitRange ==
    /\ InitSplitVars
    /\ InitMergeVars
    /\ InitRotateVars
    /\ InitOcrVars
    /\ InitJpgVars
    /\ InitPpVars
    /\ rBack = <<>>
    /\ rText = <<>>
    /\ \/ /\ rKind = "set"
          /\ rPc = "set"
          /\ rTyped = <<>>
          /\ rMax \in 0..MaxN
          /\ \E S \in SUBSET (0..(rMax - 1)) :
                rSet \in {AscendingOf(S), Reverse(AscendingOf(S))}
       \/ /\ rKind = "text"
          /\ rPc = "typed"
          /\ rTyped \in TypedTexts
          /\ rMax \in TypedMaxes
          /\ rSet = <<>>

\* setFromText: the typed text is parsed into the index set
RSetFromText ==
    /\ rPc = "typed"
    /\ rSet' = parseRangeText(rTyped, rMax)
    /\ rPc' = "set"
    /\ UNCHANGED <<rKind, rMax, rTyped, rText, rBack>>
    /\ UNCHANGED notRange

\* toTextRange: the range text is derived from the index set
RToTextRange ==
    /\ rPc = "set"
    /\ rText' = updateRangeFromSet(rSet)
    /\ rPc' = "text"
    /\ UNCHANGED <<rKind, rMax, rTyped, rSet, rBack>>
    /\ UNCHANGED notRange

\* the derived text is parsed again
RReparse ==
    /\ rPc = "text"
    /\ rBack' = parseRangeText(rText, rMax)
    /\ rPc' = "done"
    /\ UNCHANGED <<rKind, rMax, rTyped, rSet, rText>>
    /\ UNCHANGED notRange

NextRange == RSetFromText \/ RToTextRange \/ RReparse

SpecRange == InitRange /\ [][NextRange]_vars

-----------------------------------------------------------------------------
(* Claims about the page-range functions, checked under SpecRange *)

\* C1: parsing (with max = N) the range text that updateRangeFromSet derives
\* from an index set S over a document of N pages gives back exactly S, as a
\* duplicate-free list; S is a drawn set of valid indices or the parse of a
\* drawn text, so parsing the text derived from parse(s) reproduces parse(s).
C1_RoundTrip ==
    rPc = "done" =>
        /\ Range(rBack) = Range(rSet)
        /\ Len(rBack) = Cardinality(Range(rSet))

\* a set with a two-digit page, a run and a single page has made the round trip
C1_Witness ==
    /\ rPc = "done"
    /\ rKind = "set"
    /\ rSet = <<10, 4, 2, 1, 0>>
    /\ rBack = <<0, 1, 2, 4, 10>>

\* the first index of each maximal run of consecutive indices of S
RunStarts(S) == {x \in S : (x - 1) \notin S}

\* the last index of the maximal run of S that starts at a
RunEnd(S, a) ==
    CHOOSE b \in S : b >= a /\ (\A x \in a..b : x \in S) /\ (b + 1) \notin S

\* the canonical text of S: its maximal runs in ascending order, a run of one
\* index as its 1-based number, a longer run as first-last, joined with ", "
CanonicalText(S) ==
    LET starts == AscendingOf(RunStarts(S))
        token(a) ==
            IF RunEnd(S, a) = a THEN NumberToString(a + 1)
            ELSE NumberToString(a + 1) \o <<"-">> \o NumberToString(RunEnd(S, a) + 1)
    IN StrJoin([i \in 1..Len(starts) |-> token(starts[i])], <<",", " ">>)

\* C2: the range text derived from an index set is in canonical form (tokens
\* strictly ascending, non-overlapping, maximally merged, joined with ", "),
\* {0,1,2,4} gives "1-3, 5", and the empty set gives the empty text.
C2_CanonicalForm ==
    rPc \in {"text", "done"} =>
        /\ rText = CanonicalText(Range(rSet))
        /\ (Range(rSet) = {0, 1, 2, 4}) => rText = <<"1", "-", "3", ",", " ", "5">>
        /\ (rSet = <<>>) <=> (rText = <<>>)

\* the text of {0,1,2,4}, drawn in descending order, has been derived
C2_Witness ==
    /\ rPc = "text"
    /\ rSet = <<4, 2, 1, 0>>
    /\ rText = <<"1", "-", "3", ",", " ", "5">>

-----------------------------------------------------------------------------
(* Split tool: handleFileChange *)

\* the files a user may pick: PDF documents of 1..MaxPages pages, and one
\* above the size ceiling of line 38
SplitFiles ==
    {[pageCount |-> n, tooLarge |-> FALSE] : n \in 1..MaxPages}
        \cup {[pageCount |-> 1, tooLarge |-> TRUE]}

PdfInfoOf(file) == [loaded |-> TRUE, pageCount |-> file.pageCount]

\* Math.min(pdf.numPages, 50)
ThumbCount(file) == Min(file.pageCount, THUMBNAIL_LIMIT)

\* The handleFileChange calls of a session that run at a time: a call, and one
\* started while it runs (the file input is enabled whenever it is rendered).
LoadSlots == 1..2

\* the place a starting call takes
FreeSlot == IF loadPc[1] = "idle" THEN 1 ELSE 2

\* the finally block of handleFileChange
LoadFinally(k) ==
    /\ isProcessing' = FALSE
    /\ progress' = 0
    /\ loadPc' = [loadPc EXCEPT ![k] = "idle"]
    /\ loadFile' = [loadFile EXCEPT ![k] = NoPdf]
    /\ loadThumbs' = [loadThumbs EXCEPT ![k] = <<>>]

\* a mutant of LoadTooLarge: the return of line 40 is missing
LoadTooLargeDecoded(file) ==
    /\ pdfInfo = NoPdf
    /\ file.tooLarge
    /\ loadPc[FreeSlot] = "idle"
    /\ isProcessing' = TRUE
    /\ error' = NoError
    /\ thumbnails' = <<>>
    /\ selectedPages' = <<>>
    /\ rangeText' = <<>>
    /\ loadPc' = [loadPc EXCEPT ![FreeSlot] = "decode"]
    /\ loadFile' = [loadFile EXCEPT ![FreeSlot] = file]
    /\ loadThumbs' = [loadThumbs EXCEPT ![FreeSlot] = <<>>]
    /\ UNCHANGED <<pdfInfo, splitMode, progress>>
    /\ UNCHANGED <<splitPc, splitJob, splitIndices, splitI, splitZip, timers,
                   downloads>>
    /\ UNCHANGED notSplit

\* a file above the ceiling is picked: lines 38-41. The file input is
\* rendered only while no document is loaded (line 237).
LoadTooLarge(file) ==
    /\ pdfInfo = NoPdf
    /\ file.tooLarge
    /\ error' = ErrTooLarge
    /\ UNCHANGED <<pdfInfo, splitMode, selectedPages, rangeText, thumbnails,
                   isProcessing, progress>>
    /\ UNCHANGED <<loadPc, loadFile, loadThumbs, splitPc, splitJob,
                   splitIndices, splitI, splitZip, timers, downloads>>
    /\ UNCHANGED notSplit

\* a PDF is picked: lines 42-46, up to the first await
LoadStart(file) ==
    /\ pdfInfo = NoPdf
    /\ loadPc[FreeSlot] = "idle"
    /\ ~file.tooLarge
    /\ isProcessing' = TRUE
    /\ error' = NoError
    /\ thumbnails' = <<>>
    /\ selectedPages' = <<>>
    /\ rangeText' = <<>>
    /\ loadPc' = [loadPc EXCEPT ![FreeSlot] = "decode"]
    /\ loadFile' = [loadFile EXCEPT ![FreeSlot] = file]
    /\ loadThumbs' = [loadThumbs EXCEPT ![FreeSlot] = <<>>]
    /\ UNCHANGED <<pdfInfo, splitMode, progress>>
    /\ UNCHANGED <<splitPc, splitJob, splitIndices, splitI, splitZip, timers,
                   downloads>>
    /\ UNCHANGED notSplit

\* the document is decoded: lines 49-63
LoadDecoded(k) ==
    /\ loadPc[k] = "decode"
    /\ pdfInfo' = PdfInfoOf(loadFile[k])
    /\ loadPc' = [loadPc EXCEPT ![k] = "thumbs"]
    /\ UNCHANGED <<splitMode, selectedPages, rangeText, thumbnails,
                   isProcessing, progress, error>>
    /\ UNCHANGED <<loadFile, loadThumbs, splitPc, splitJob, splitIndices,
                   splitI, splitZip, timers, downloads>>
    /\ UNCHANGED notSplit

\* one page is rendered and pushed: lines 66-73
LoadThumb(k) ==
    /\ loadPc[k] = "thumbs"
    /\ Len(loadThumbs[k]) < ThumbCount(loadFile[k])
    /\ loadThumbs' = [loadThumbs EXCEPT ![k] =
                        Append(@, [pageCount |-> loadFile[k].pageCount,
                                   page |-> Len(@)])]
    /\ progress' = RoundPercent(Len(loadThumbs[k]) + 1, ThumbCount(loadFile[k]))
    /\ loadPc' = [loadPc EXCEPT ![k] =
                    IF Len(loadThumbs[k]) + 1 = ThumbCount(loadFile[k])
                    THEN "finish" ELSE "thumbs"]
    /\ UNCHANGED <<pdfInfo, splitMode, selectedPages, rangeText, thumbnails,
                   isProcessing, error>>
    /\ UNCHANGED <<loadFile, splitPc, splitJob, splitIndices, splitI,
                   splitZip, timers, downloads>>
    /\ UNCHANGED notSplit

\* the loop has ended: line 75 and the finally block
LoadFinish(k) ==
    /\ loadPc[k] = "finish"
    /\ thumbnails' = loadThumbs[k]
    /\ LoadFinally(k)
    /\ UNCHANGED <<pdfInfo, splitMode, selectedPages, rangeText, error>>
    /\ UNCHANGED <<splitPc, splitJob, splitIndices, splitI, splitZip, timers,
                   downloads>>
    /\ UNCHANGED notSplit

\* decoding or rendering throws: the catch of line 76 and the finally block
LoadFail(k) ==
    /\ loadPc[k] \in {"decode", "thumbs"}
    /\ error' = ErrLoad
    /\ LoadFinally(k)
    /\ UNCHANGED <<pdfInfo, splitMode, selectedPages, rangeText, thumbnails>>
    /\ UNCHANGED <<splitPc, splitJob, splitIndices, splitI, splitZip, timers,
                   downloads>>
    /\ UNCHANGED notSplit

-----------------------------------------------------------------------------
(* Split tool: the controls of the loaded document *)

\* the Clear button of line 223
ClearPdf ==
    /\ pdfInfo # NoPdf
    /\ pdfInfo' = NoPdf
    /\ UNCHANGED <<splitMode, selectedPages, rangeText, thumbnails,
                   isProcessing, progress, error>>
    /\ UNCHANGED <<loadPc, loadFile, loadThumbs, splitPc, splitJob,
                   splitIndices, splitI, splitZip, timers, downloads>>
    /\ UNCHANGED notSplit

\* the two mode buttons of lines 252 and 260
SetSplitMode(mode) ==
    /\ pdfInfo # NoPdf
    /\ splitMode # mode
    /\ splitMode' = mode
    /\ UNCHANGED <<pdfInfo, selectedPages, rangeText, thumbnails,
                   isProcessing, progress, error>>
    /\ UNCHANGED <<loadPc, loadFile, loadThumbs, splitPc, splitJob,
                   splitIndices, splitI, splitZip, timers, downloads>>
    /\ UNCHANGED notSplit

\* the selection controls are rendered for a loaded document in range mode
SelectionShown == pdfInfo # NoPdf /\ splitMode = "range"

\* a mutant of Toggled: the index is added and never deleted
ToggledAddOnly(set, index) == SetAdd(set, index)

\* new Set(selectedPages) with the membership of index flipped (lines 111-113)
Toggled(set, index) ==
    IF index \in Range(set) THEN SetDelete(set, index) ELSE SetAdd(set, index)

\* togglePage(index), called from the thumbnail of page index (line 293)
togglePage(index) ==
    /\ SelectionShown
    /\ index < Len(thumbnails)
    /\ selectedPages' = Toggled(selectedPages, index)
    /\ rangeText' = updateRangeFromSet(Toggled(selectedPages, index))
    /\ UNCHANGED <<pdfInfo, splitMode, thumbnails, isProcessing, progress,
                   error>>
    /\ UNCHANGED <<loadPc, loadFile, loadThumbs, splitPc, splitJob,
                   splitIndices, splitI, splitZip, timers, downloads>>
    /\ UNCHANGED notSplit

\* a mutant of AllPages: the loop of line 121 stops one page early
AllPagesButLast(pageCount) == [i \in 1..(pageCount - 1) |-> i - 1]

\* the set all of selectAll: 0, 1, ..., pageCount - 1 added in this order
AllPages(pageCount) == [i \in 1..pageCount |-> i - 1]

selectAll ==
    /\ SelectionShown
    /\ selectedPages' = AllPages(pdfInfo.pageCount)
    /\ rangeText' = updateRangeFromSet(AllPages(pdfInfo.pageCount))
    /\ UNCHANGED <<pdfInfo, splitMode, thumbnails, isProcessing, progress,
                   error>>
    /\ UNCHANGED <<loadPc, loadFile, loadThumbs, splitPc, splitJob,
                   splitIndices, splitI, splitZip, timers, downloads>>
    /\ UNCHANGED notSplit

\* selectAll without a document: the return of line 119
selectAllNoPdf ==
    /\ pdfInfo = NoPdf
    /\ UNCHANGED splitVars
    /\ UNCHANGED notSplit

clearSelection ==
    /\ SelectionShown
    /\ selectedPages' = <<>>
    /\ rangeText' = <<>>
    /\ UNCHANGED <<pdfInfo, splitMode, thumbnails, isProcessing, progress,
                   error>>
    /\ UNCHANGED <<loadPc, loadFile, loadThumbs, splitPc, splitJob,
                   splitIndices, splitI, splitZip, timers, downloads>>
    /\ UNCHANGED notSplit

\* what a user types into the range text field: nothing, a page, a reversed
\* range, a page beyond the document, a word
EditTexts ==
    {<<>>, <<"2">>, <<"3", "-", "1">>, <<"9">>, <<"a">>}

\* onChange of the range text field (line 277)
EditRangeText(text) ==
    /\ SelectionShown
    /\ text # rangeText
    /\ rangeText' = text
    /\ UNCHANGED <<pdfInfo, splitMode, selectedPages, thumbnails,
                   isProcessing, progress, error>>
    /\ UNCHANGED <<loadPc, loadFile, loadThumbs, splitPc, splitJob,
                   splitIndices, splitI, splitZip, timers, downloads>>
    /\ UNCHANGED notSplit

-----------------------------------------------------------------------------
(* Split tool: handleSplit *)

\* the index list of range mode (line 165): the parsed range text, or, when
\* the text is empty, the selected set in its insertion order
ResolvedIndices(text, set, pageCount) ==
    IF text # <<>> THEN parseRangeText(text, pageCount) ELSE set

\* `Page_${i}.pdf`: the entries are numbered from 0
PageFileNameFromZero(i) ==
    <<"P", "a", "g", "e", "_">> \o NumberToString(i) \o <<".", "p", "d", "f">>

\* `Page_${i + 1}.pdf`
PageFileName(i) ==
    <<"P", "a", "g", "e", "_">> \o NumberToString(i + 1) \o <<".", "p", "d", "f">>

\* zip.file(name, bytes): an entry of the same name is replaced
ZipFile(zip, name, pages) ==
    Append(SelectSeq(zip, LAMBDA e : e.name # name),
           [name |-> name, pages |-> pages])

\* setTimeout of the finally block (lines 195-198), and the job is over
SplitFinally ==
    /\ timers' = timers + 1
    /\ splitPc' = "idle"
    /\ splitJob' = NoJob
    /\ splitIndices' = <<>>
    /\ splitI' = 0
    /\ splitZip' = <<>>

\* the button of line 333 is clicked: lines 155-158, up to the first await.
\* The button is rendered for a loaded document and disabled while
\* isProcessing; the model follows one call at a time. The closure of the call
\* holds pdfInfo, splitMode, rangeText and selectedPages of the click; the
\* index list of line 165 is a function of these alone, and is kept in their
\* place.
SplitStart ==
    /\ pdfInfo # NoPdf
    /\ ~isProcessing
    /\ splitPc = "idle"
    /\ timers < MaxTimers
    /\ isProcessing' = TRUE
    /\ progress' = 0
    /\ error' = NoError
    /\ splitPc' = "load"
    /\ splitJob' = [started |-> TRUE, pdfInfo |-> pdfInfo, splitMode |-> splitMode]
    /\ splitIndices' = IF splitMode = "range"
                       THEN ResolvedIndices(rangeText, selectedPages,
                                            pdfInfo.pageCount)
                       ELSE <<>>
    /\ downloads' = 0
    /\ UNCHANGED <<pdfInfo, splitMode, selectedPages, rangeText, thumbnails>>
    /\ UNCHANGED <<loadPc, loadFile, loadThumbs, splitI, splitZip, timers>>
    /\ UNCHANGED notSplit

\* the return of line 169 is missing: the message is set and the call goes on
SplitEmptySelectionNoReturn ==
    /\ splitPc = "load"
    /\ splitJob.splitMode = "range"
    /\ splitIndices = <<>>
    /\ error' = ErrSelect
    /\ isProcessing' = FALSE
    /\ splitPc' = "extract"
    /\ UNCHANGED <<pdfInfo, splitMode, selectedPages, rangeText, thumbnails,
                   progress>>
    /\ UNCHANGED <<loadPc, loadFile, loadThumbs, splitJob, splitIndices, splitI,
                   splitZip, timers, downloads>>
    /\ UNCHANGED notSplit

\* range mode, the source is loaded and the index list is empty: lines 165-170
SplitEmptySelection ==
    /\ splitPc = "load"
    /\ splitJob.splitMode = "range"
    /\ splitIndices = <<>>
    /\ error' = ErrSelect
    /\ isProcessing' = FALSE
    /\ SplitFinally
    /\ UNCHANGED <<pdfInfo, splitMode, selectedPages, rangeText, thumbnails,
                   progress>>
    /\ UNCHANGED <<loadPc, loadFile, loadThumbs, downloads>>
    /\ UNCHANGED notSplit

\* range mode, the source is loaded and the index list is not empty: line 165
SplitResolved ==
    /\ splitPc = "load"
    /\ splitJob.splitMode = "range"
    /\ splitIndices # <<>>
    /\ splitPc' = "extract"
    /\ UNCHANGED splitState
    /\ UNCHANGED <<loadPc, loadFile, loadThumbs, splitJob, splitIndices, splitI,
                   splitZip, timers, downloads>>
    /\ UNCHANGED notSplit

\* copyPages(sourcePdf, indices) copies the pages in the order of indices and
\* throws on an index that is no page of the source
CopyPages(pageCount, indices) ==
    IF \A k \in 1..Len(indices) : indices[k] >= 0 /\ indices[k] < pageCount
    THEN [ok |-> TRUE, pages |-> indices]
    ELSE [ok |-> FALSE, pages |-> <<>>]

\* range mode: the pages are copied, the output saved and downloaded
\* (lines 172-178)
SplitExtract ==
    /\ splitPc = "extract"
    /\ CopyPages(splitJob.pdfInfo.pageCount, splitIndices).ok
    /\ downloads' = downloads + 1
    /\ progress' = 100
    /\ SplitFinally
    /\ UNCHANGED <<pdfInfo, splitMode, selectedPages, rangeText, thumbnails,
                   isProcessing, error>>
    /\ UNCHANGED <<loadPc, loadFile, loadThumbs>>
    /\ UNCHANGED notSplit

\* all mode, the source is loaded: line 180
SplitBurstBegin ==
    /\ splitPc = "load"
    /\ splitJob.splitMode = "all"
    /\ splitPc' = "burst"
    /\ splitI' = 0
    /\ splitZip' = <<>>
    /\ UNCHANGED splitState
    /\ UNCHANGED <<loadPc, loadFile, loadThumbs, splitJob, splitIndices,
                   timers, downloads>>
    /\ UNCHANGED notSplit

\* a mutant of SplitBurstPage: each page is downloaded as soon as it is saved
SplitBurstPageDownloaded ==
    /\ splitPc = "burst"
    /\ splitI < splitJob.pdfInfo.pageCount
    /\ CopyPages(splitJob.pdfInfo.pageCount, <<splitI>>).ok
    /\ splitZip' = ZipFile(splitZip, PageFileName(splitI),
                           CopyPages(splitJob.pdfInfo.pageCount, <<splitI>>).pages)
    /\ progress' = RoundPercent(splitI + 1, splitJob.pdfInfo.pageCount)
    /\ splitI' = splitI + 1
    /\ splitPc' = IF splitI + 1 < splitJob.pdfInfo.pageCount THEN "burst" ELSE "zip"
    /\ downloads' = downloads + 1
    /\ UNCHANGED <<pdfInfo, splitMode, selectedPages, rangeText, thumbnails,
                   isProcessing, error>>
    /\ UNCHANGED <<loadPc, loadFile, loadThumbs, splitJob, splitIndices,
                   timers>>
    /\ UNCHANGED notSplit

\* all mode: one turn of the loop of lines 181-188
SplitBurstPage ==
    /\ splitPc = "burst"
    /\ splitI < splitJob.pdfInfo.pageCount
    /\ CopyPages(splitJob.pdfInfo.pageCount, <<splitI>>).ok
    /\ splitZip' = ZipFile(splitZip, PageFileName(splitI),
                           CopyPages(splitJob.pdfInfo.pageCount, <<splitI>>).pages)
    /\ progress' = RoundPercent(splitI + 1, splitJob.pdfInfo.pageCount)
    /\ splitI' = splitI + 1
    /\ splitPc' = IF splitI + 1 < splitJob.pdfInfo.pageCount THEN "burst" ELSE "zip"
    /\ UNCHANGED <<pdfInfo, splitMode, selectedPages, rangeText, thumbnails,
                   isProcessing, error>>
    /\ UNCHANGED <<loadPc, loadFile, loadThumbs, splitJob, splitIndices,
                   timers, downloads>>
    /\ UNCHANGED notSplit

\* all mode: the archive is generated and downloaded (lines 189-190)
SplitZipDownload ==
    /\ splitPc = "zip"
    /\ downloads' = downloads + 1
    /\ SplitFinally
    /\ UNCHANGED splitState
    /\ UNCHANGED <<loadPc, loadFile, loadThumbs>>
    /\ UNCHANGED notSplit

\* an awaited call of the codec or of the archive packager throws: the catch
\* of line 192
SplitFail ==
    /\ splitPc \in {"load", "extract", "burst", "zip"}
    /\ error' = ErrSplit
    /\ SplitFinally
    /\ UNCHANGED <<pdfInfo, splitMode, selectedPages, rangeText, thumbnails,
                   isProcessing, progress>>
    /\ UNCHANGED <<loadPc, loadFile, loadThumbs, downloads>>
    /\ UNCHANGED notSplit

\* a mutant of SplitTimer: the callback does not reset isProcessing
SplitTimerNoReset ==
    /\ timers > 0
    /\ timers' = timers - 1
    /\ UNCHANGED <<pdfInfo, splitMode, selectedPages, rangeText, thumbnails,
                   isProcessing, progress, error>>
    /\ UNCHANGED <<loadPc, loadFile, loadThumbs, splitPc, splitJob,
                   splitIndices, splitI, splitZip, downloads>>
    /\ UNCHANGED notSplit

\* a callback of line 195 runs
SplitTimer ==
    /\ timers > 0
    /\ timers' = timers - 1
    /\ isProcessing' = FALSE
    /\ progress' = 0
    /\ UNCHANGED <<pdfInfo, splitMode, selectedPages, rangeText, thumbnails,
                   error>>
    /\ UNCHANGED <<loadPc, loadFile, loadThumbs, splitPc, splitJob,
                   splitIndices, splitI, splitZip, downloads>>
    /\ UNCHANGED notSplit

InitSplit ==
    /\ InitSplitVars
    /\ InitRangeVars
    /\ InitMergeVars
    /\ InitRotateVars
    /\ InitOcrVars
    /\ InitJpgVars
    /\ InitPpVars

\* no handleFileChange call is running
NoLoadRunning == \A k \in LoadSlots : loadPc[k] = "idle"

\* The Split tool with a user who picks a file only while no file is being
\* loaded; NextSplitOverlap is without that.
NextSplit ==
    \/ \E file \in SplitFiles : LoadTooLarge(file)
    \/ \E file \in SplitFiles : NoLoadRunning /\ LoadStart(file)
    \/ \E k \in LoadSlots : LoadDecoded(k)
    \/ \E k \in LoadSlots : LoadThumb(k)
    \/ \E k \in LoadSlots : LoadFinish(k)
    \/ \E k \in LoadSlots : LoadFail(k)
    \/ ClearPdf
    \/ \E mode \in {"range", "all"} : SetSplitMode(mode)
    \/ \E index \in 0..(MaxPages - 1) : togglePage(index)
    \/ selectAll
    \/ selectAllNoPdf
    \/ clearSelection
    \/ \E text \in EditTexts : EditRangeText(text)
    \/ SplitStart
    \/ SplitEmptySelection
    \/ SplitResolved
    \/ SplitExtract
    \/ SplitBurstBegin
    \/ SplitBurstPage
    \/ SplitZipDownload
    \/ SplitFail
    \/ SplitTimer

SpecSplit == InitSplit /\ [][NextSplit]_vars

-----------------------------------------------------------------------------
(* Claims about the Split tool, checked under SpecSplit *)

\* C3: after any sequence of togglePage, selectAll, clearSelection and direct
\* edits of the range text field, the selected index set and the range text
\* denote the same pages: selectedPages = parseRangeText(rangeText, pageCount).
C3_SelectionMatchesText ==
    pdfInfo # NoPdf =>
        Range(selectedPages) = Range(parseRangeText(rangeText, pdfInfo.pageCount))

StrictlyAscending(list) ==
    \A i \in 1..(Len(list) - 1) : list[i] < list[i + 1]

\* C4: for every reachable selection state (pages toggled in any order, range
\* text edited or emptied) the index list handleSplit passes to copyPages is
\* strictly ascending.
C4_ExtractAscending ==
    splitPc = "extract" => StrictlyAscending(splitIndices)

\* a handleSplit call in range mode whose resolved index list is empty
EmptyJob ==
    /\ splitJob # NoJob
    /\ splitJob.splitMode = "range"
    /\ splitIndices = <<>>

\* C5: extract-subset with an empty resolved selection fails with the
\* EmptySelection message and produces no output: the call never reaches the
\* copy, triggers no download, and the step in which it finds the list empty
\* (the source having been loaded) sets the message, clears the busy flag and
\* leaves the loaded document, thumbnails, selection and range text unchanged.
C5_EmptySelectionFails ==
    /\ [](EmptyJob => (splitPc = "load" /\ downloads = 0))
    /\ [][(EmptyJob /\ splitPc' = "idle" /\ error' # ErrSplit) =>
            /\ error' = ErrSelect
            /\ isProcessing' = FALSE
            /\ downloads' = 0
            /\ pdfInfo' = pdfInfo
            /\ thumbnails' = thumbnails
            /\ selectedPages' = selectedPages
            /\ rangeText' = rangeText]_vars

\* a call has just ended on an empty list resolved from a typed text that names
\* no page of the document, with pages selected
C5_Witness ==
    /\ error = ErrSelect
    /\ splitPc = "idle"
    /\ timers = 1
    /\ downloads = 0
    /\ pdfInfo # NoPdf
    /\ rangeText = <<"9">>
    /\ selectedPages # <<>>

\* C8: burst over an N-page document yields exactly N single-page outputs in
\* one archive, output i holding exactly source page i under the name
\* Page_{i+1}.pdf, all names distinct; the one download of the archive is
\* triggered only after all N entries were added.
C8_Burst ==
    /\ [](splitPc \in {"burst", "zip"} =>
            /\ Len(splitZip) = splitI
            /\ \A k \in 1..Len(splitZip) :
                    /\ splitZip[k].pages = <<k - 1>>
                    /\ splitZip[k].name =
                            <<"P", "a", "g", "e", "_">> \o NumberToString(k)
                                \o <<".", "p", "d", "f">>
            /\ \A j, k \in 1..Len(splitZip) :
                    j # k => splitZip[j].name # splitZip[k].name
            /\ downloads = 0)
    /\ [](splitPc = "zip" => Len(splitZip) = splitJob.pdfInfo.pageCount)
    /\ [](downloads <= 1)
    /\ [][(splitJob # NoJob /\ splitJob.splitMode = "all" /\ downloads' # downloads) =>
            (splitPc = "zip" /\ downloads' = 1)]_vars

\* the archive of a 3-page document holds its three entries, the download is due
C8_Witness ==
    /\ splitPc = "zip"
    /\ splitJob.pdfInfo.pageCount = 3
    /\ Len(splitZip) = 3
    /\ splitZip[3] = [name |-> <<"P", "a", "g", "e", "_", "3", ".", "p", "d", "f">>,
                       pages |-> <<2>>]

-----------------------------------------------------------------------------
(* Merge tool: the queue *)

\* the page counts of the documents given to the Merge tool
MergePageCounts == {1, 2, 3}

\* the files a user may add: PDF documents of these page counts, the longest
\* of them exactly at the size ceiling, a PDF above the ceiling, and a file
\* that is no PDF
MergeFilePool ==
    {[type |-> "application/pdf",
      size |-> IF n = 3 THEN MAX_FILE_SIZE_BYTES ELSE 1024,
      pageCount |-> n] : n \in MergePageCounts}
    \cup {[type |-> "application/pdf", size |-> MAX_FILE_SIZE_BYTES + 1,
           pageCount |-> 1],
          [type |-> "image/png", size |-> 1024, pageCount |-> 0]}

\* the lists of files of one file-input change or one drop
NewFileLists == UNION {[1..n -> MergeFilePool] : n \in 1..2}

\* the values of Math.random().toString(36).substr(2, 9): two of them, so
\* that two items may get the same id
FileIds == {"k3x9q0a1b", "q7m2z5c8d"}

\* newFiles.filter(f => f.type === 'application/pdf')
PdfFilesOf(newFiles) == SelectSeq(newFiles, LAMBDA f : f.type = "application/pdf")

TooLargeOf(pdfFiles) == SelectSeq(pdfFiles, LAMBDA f : f.size > MAX_FILE_SIZE_BYTES)

\* a mutant of ValidFilesOf: no file is left out for its size
ValidFilesOfAnySize(pdfFiles) == pdfFiles

ValidFilesOf(pdfFiles) == SelectSeq(pdfFiles, LAMBDA f : f.size <= MAX_FILE_SIZE_BYTES)

\* addFiles(newFiles), from the file input or a drop; ids are the ids that
\* Math.random gives to the new items
addFiles(newFiles) ==
    LET pdfFiles == PdfFilesOf(newFiles)
        tooLarge == TooLargeOf(pdfFiles)
        validFiles == ValidFilesOf(pdfFiles)
    IN /\ Len(files) + Len(validFiles) <= MaxQueue
       /\ errorMessage' = IF Len(tooLarge) > 0
                          THEN SkippedMessage(Len(tooLarge))
                          ELSE NoMessage
       /\ \E ids \in [1..Len(validFiles) -> FileIds] :
              files' = files \o [k \in 1..Len(validFiles) |->
                                    [id |-> ids[k], file |-> validFiles[k]]]
       /\ UNCHANGED <<isMerging, mergeProgress, numbering, mergePc, mergeJob,
                      mergeI, mergedPdf, mergeTimer, mergeDownloads>>
       /\ UNCHANGED mergeAux
       /\ UNCHANGED notMerge

\* removeFile(id), from the button of an item, disabled while merging
removeFile(id) ==
    /\ ~isMerging
    /\ \E k \in 1..Len(files) : files[k].id = id
    /\ files' = SelectSeq(files, LAMBDA f : f.id # id)
    /\ UNCHANGED <<isMerging, mergeProgress, errorMessage, numbering, mergePc,
                   mergeJob, mergeI, mergedPdf, mergeTimer, mergeDownloads>>
    /\ UNCHANGED mergeAux
    /\ UNCHANGED notMerge

\* files.findIndex(f => f.id === id), 0-based, -1 when there is none
FindIndex(queue, id) ==
    IF \E k \in 1..Len(queue) : queue[k].id = id
    THEN (CHOOSE k \in 1..Len(queue) :
              queue[k].id = id /\ \A j \in 1..(k - 1) : queue[j].id # id) - 1
    ELSE -1

\* the queue with the items at 0-based positions a and b exchanged
Swapped(queue, a, b) ==
    [k \in 1..Len(queue) |->
        IF k = a + 1 THEN queue[b + 1]
        ELSE IF k = b + 1 THEN queue[a + 1]
        ELSE queue[k]]

\* moveFile(id, direction), where it changes the queue: the id is found and
\* the target is a position of the queue
moveFile(id, direction) ==
    LET index == FindIndex(files, id)
        targetIndex == IF direction = "up" THEN index - 1 ELSE index + 1
    IN /\ index >= 0
       /\ targetIndex >= 0
       /\ targetIndex < Len(files)
       /\ files' = Swapped(files, index, targetIndex)
       /\ UNCHANGED <<isMerging, mergeProgress, errorMessage, numbering, mergePc,
                      mergeJob, mergeI, mergedPdf, mergeTimer, mergeDownloads>>
       /\ UNCHANGED mergeAux
       /\ UNCHANGED notMerge

\* moveFile(id, direction), where it leaves the queue alone: the id is not
\* found (line 91), or the target is no position of the queue (line 94)
moveFileIgnored(id, direction) ==
    LET index == FindIndex(files, id)
        targetIndex == IF direction = "up" THEN index - 1 ELSE index + 1
    IN /\ ~(index >= 0 /\ targetIndex >= 0 /\ targetIndex < Len(files))
       /\ UNCHANGED mergeVars
       /\ UNCHANGED notMerge

\* no queue item is being dragged
NoDragRunning == draggedIndex = NoDraggedIndex

\* onDragStartItem(index), on an item of the queue, draggable while not merging
onDragStartItem(index) ==
    /\ ~isMerging
    /\ NoDragRunning
    /\ index < Len(files)
    /\ draggedIndex' = index
    /\ UNCHANGED <<files, isMerging, mergeProgress, errorMessage, numbering,
                   mergePc, mergeJob, mergeI, mergedPdf, mergeTimer,
                   mergeDownloads, lastAlert>>
    /\ UNCHANGED mergeUrls
    /\ UNCHANGED notMerge

\* a mutant of Spliced: the dragged item and the hovered item change places
SplicedAsSwap(queue, from, to) == Swapped(queue, from, to)

\* newFiles.splice(from, 1); newFiles.splice(to, 0, draggedItem), 0-based
Spliced(queue, from, to) ==
    LET without == [k \in 1..(Len(queue) - 1) |->
                       IF k < from + 1 THEN queue[k] ELSE queue[k + 1]]
    IN [k \in 1..Len(queue) |->
           IF k < to + 1 THEN without[k]
           ELSE IF k = to + 1 THEN queue[from + 1]
           ELSE without[k - 1]]

\* onDragOverItem(e, index) where it changes the queue: an item is dragged
\* over another one (lines 104-113)
onDragOverItem(index) ==
    /\ ~NoDragRunning
    /\ draggedIndex # index
    /\ draggedIndex < Len(files)
    /\ index < Len(files)
    /\ files' = Spliced(files, draggedIndex, index)
    /\ draggedIndex' = index
    /\ UNCHANGED <<isMerging, mergeProgress, errorMessage, numbering,
                   mergePc, mergeJob, mergeI, mergedPdf, mergeTimer,
                   mergeDownloads, lastAlert>>
    /\ UNCHANGED mergeUrls
    /\ UNCHANGED notMerge

\* newFiles[draggedIndex] where draggedIndex is no position of the queue
UndefinedItem ==
    [id |-> "undefined",
     file |-> [type |-> "undefined", size |-> 0, pageCount |-> 0]]

\* newFiles.splice(to, 0, item), 0-based
Inserted(queue, to, item) ==
    [k \in 1..(Len(queue) + 1) |->
        IF k < to + 1 THEN queue[k]
        ELSE IF k = to + 1 THEN item
        ELSE queue[k - 1]]

\* onDragOverItem(e, index) with a draggedIndex that is no position of the
\* queue any more: newFiles[draggedIndex] is undefined, the first splice
\* removes nothing and the second one inserts undefined (lines 108-113)
onDragOverStale(index) ==
    /\ ~NoDragRunning
    /\ draggedIndex # index
    /\ draggedIndex >= Len(files)
    /\ index < Len(files)
    /\ files' = Inserted(files, index, UndefinedItem)
    /\ draggedIndex' = index
    /\ UNCHANGED <<isMerging, mergeProgress, errorMessage, numbering,
                   mergePc, mergeJob, mergeI, mergedPdf, mergeTimer,
                   mergeDownloads, lastAlert>>
    /\ UNCHANGED mergeUrls
    /\ UNCHANGED notMerge

\* onDragEndItem, at the end of the drag
onDragEndItem ==
    /\ ~NoDragRunning
    /\ draggedIndex' = NoDraggedIndex
    /\ UNCHANGED <<files, isMerging, mergeProgress, errorMessage, numbering,
                   mergePc, mergeJob, mergeI, mergedPdf, mergeTimer,
                   mergeDownloads, lastAlert>>
    /\ UNCHANGED mergeUrls
    /\ UNCHANGED notMerge

\* the Clear All button of line 243
ClearAll ==
    /\ files' = <<>>
    /\ errorMessage' = NoMessage
    /\ UNCHANGED <<isMerging, mergeProgress, numbering, mergePc, mergeJob,
                   mergeI, mergedPdf, mergeTimer, mergeDownloads>>
    /\ UNCHANGED mergeAux
    /\ UNCHANGED notMerge

\* the check box of line 350, rendered while the queue is not empty
ToggleNumbering ==
    /\ Len(files) > 0
    /\ numbering' = ~numbering
    /\ UNCHANGED <<files, isMerging, mergeProgress, errorMessage, mergePc,
                   mergeJob, mergeI, mergedPdf, mergeTimer, mergeDownloads>>
    /\ UNCHANGED mergeAux
    /\ UNCHANGED notMerge

-----------------------------------------------------------------------------
(* Merge tool: handleMerge *)

\* copiedPages.forEach(page => mergedPdf.addPage(page)) for all the pages
\* (pdf.getPageIndices()) of the document at queue position i (lines 136-137)
AddPagesInFront(doc, i, pageCount) ==
    [j \in 1..pageCount |-> [doc |-> i, page |-> j - 1, labels |-> <<>>]] \o doc

AddPages(doc, i, pageCount) ==
    doc \o [j \in 1..pageCount |-> [doc |-> i, page |-> j - 1, labels |-> <<>>]]

\* `Page ${i} of ${totalPages}`: the label counts from 0
PageLabelFromZero(i, totalPages) ==
    <<"P", "a", "g", "e", " ">> \o NumberToString(i)
        \o <<" ", "o", "f", " ">> \o NumberToString(totalPages)

\* `Page ${i + 1} of ${totalPages}` (line 150)
PageLabel(i, totalPages) ==
    <<"P", "a", "g", "e", " ">> \o NumberToString(i + 1)
        \o <<" ", "o", "f", " ">> \o NumberToString(totalPages)

\* page.drawText(text, ...) on pages[i] (line 184)
DrawText(doc, i, text) ==
    [doc EXCEPT ![i + 1].labels = Append(@, text)]

\* the end of a handleMerge call
MergeEnd ==
    /\ mergePc' = "idle"
    /\ mergeJob' = NoJob
    /\ mergeI' = 0
    /\ mergedPdf' = <<>>

\* a mutant of MergeTooFew: the return of line 123 is missing
MergeTooFewNoReturn ==
    /\ ~isMerging
    /\ mergePc = "idle"
    /\ Len(files) < 2
    /\ lastAlert' = AlertTooFew
    /\ isMerging' = TRUE
    /\ mergeProgress' = 0
    /\ mergeJob' = [started |-> TRUE,
                    pageCounts |-> [k \in 1..Len(files) |-> files[k].file.pageCount],
                    enabled |-> numbering]
    /\ mergePc' = "copy"
    /\ mergeI' = 0
    /\ mergedPdf' = <<>>
    /\ mergeDownloads' = 0
    /\ UNCHANGED <<files, errorMessage, numbering, mergeTimer, draggedIndex>>
    /\ UNCHANGED mergeUrls
    /\ UNCHANGED notMerge

\* handleMerge with fewer than two files: the alert of line 122 and the return
MergeTooFew ==
    /\ ~isMerging
    /\ mergePc = "idle"
    /\ Len(files) < 2
    /\ lastAlert' = AlertTooFew
    /\ UNCHANGED <<files, isMerging, mergeProgress, errorMessage, numbering,
                   mergePc, mergeJob, mergeI, mergedPdf, mergeTimer,
                   mergeDownloads, draggedIndex>>
    /\ UNCHANGED mergeUrls
    /\ UNCHANGED notMerge

\* handleMerge with two files or more: lines 126-130, up to the first await.
\* The button is disabled while isMerging; one call is in flight at a time.
\* The closure of the call holds files and options of the click; the page
\* counts of the queued files are kept in the place of the files.
MergeStart ==
    /\ ~isMerging
    /\ mergePc = "idle"
    /\ Len(files) >= 2
    /\ isMerging' = TRUE
    /\ mergeProgress' = 0
    /\ mergeJob' = [started |-> TRUE,
                    pageCounts |-> [k \in 1..Len(files) |-> files[k].file.pageCount],
                    enabled |-> numbering]
    /\ mergePc' = "copy"
    /\ mergeI' = 0
    /\ mergedPdf' = <<>>
    /\ mergeDownloads' = 0
    /\ lastAlert' = NoError
    /\ UNCHANGED <<files, errorMessage, numbering, mergeTimer, draggedIndex>>
    /\ UNCHANGED mergeUrls
    /\ UNCHANGED notMerge

\* a mutant of MergeCopy: the loop reads the queue of the moment and not the
\* queue of the click
MergeCopyLive ==
    /\ mergePc = "copy"
    /\ mergeI < Len(files)
    /\ mergedPdf' = AddPages(mergedPdf, mergeI, files[mergeI + 1].file.pageCount)
    /\ mergeProgress' = RoundScaled(mergeI + 1, Len(files), 50)
    /\ IF mergeI + 1 < Len(files)
          THEN mergePc' = "copy" /\ mergeI' = mergeI + 1
          ELSE mergePc' = "number" /\ mergeI' = 0
    /\ UNCHANGED <<files, isMerging, errorMessage, numbering, mergeJob,
                   mergeTimer, mergeDownloads>>
    /\ UNCHANGED mergeAux
    /\ UNCHANGED notMerge

\* one turn of the loop of lines 132-140
MergeCopy ==
    /\ mergePc = "copy"
    /\ mergeI < Len(mergeJob.pageCounts)
    /\ mergedPdf' = AddPages(mergedPdf, mergeI, mergeJob.pageCounts[mergeI + 1])
    /\ mergeProgress' = RoundScaled(mergeI + 1, Len(mergeJob.pageCounts), 50)
    /\ IF mergeI + 1 < Len(mergeJob.pageCounts)
          THEN mergePc' = "copy" /\ mergeI' = mergeI + 1
          ELSE mergePc' = "number" /\ mergeI' = 0
    /\ UNCHANGED <<files, isMerging, errorMessage, numbering, mergeJob,
                   mergeTimer, mergeDownloads>>
    /\ UNCHANGED mergeAux
    /\ UNCHANGED notMerge

\* numbering enabled: one turn of the loop of lines 147-193
MergeNumber ==
    /\ mergePc = "number"
    /\ mergeJob.enabled
    /\ mergeI < Len(mergedPdf)
    /\ mergedPdf' = DrawText(mergedPdf, mergeI, PageLabel(mergeI, Len(mergedPdf)))
    /\ mergeProgress' = 50 + RoundScaled(mergeI + 1, Len(mergedPdf), 50)
    /\ mergeI' = mergeI + 1
    /\ mergePc' = IF mergeI + 1 < Len(mergedPdf) THEN "number" ELSE "save"
    /\ UNCHANGED <<files, isMerging, errorMessage, numbering, mergeJob,
                   mergeTimer, mergeDownloads>>
    /\ UNCHANGED mergeAux
    /\ UNCHANGED notMerge

\* a mutant of MergeNoNumbering: the else branch of line 194 is missing
MergeNoNumberingNoProgress ==
    /\ mergePc = "number"
    /\ ~mergeJob.enabled
    /\ mergePc' = "save"
    /\ UNCHANGED <<files, isMerging, mergeProgress, errorMessage, numbering,
                   mergeJob, mergeI, mergedPdf, mergeTimer, mergeDownloads>>
    /\ UNCHANGED mergeAux
    /\ UNCHANGED notMerge

\* numbering disabled: line 195
MergeNoNumbering ==
    /\ mergePc = "number"
    /\ ~mergeJob.enabled
    /\ mergeProgress' = 100
    /\ mergePc' = "save"
    /\ UNCHANGED <<files, isMerging, errorMessage, numbering, mergeJob, mergeI,
                   mergedPdf, mergeTimer, mergeDownloads>>
    /\ UNCHANGED mergeAux
    /\ UNCHANGED notMerge

\* the merged document is saved and downloaded: lines 198-209
MergeSave ==
    /\ mergePc = "save"
    /\ mergeDownloads' = mergeDownloads + 1
    /\ mergeUrls' = mergeUrls + 1
    /\ mergeTimer' = TRUE
    /\ MergeEnd
    /\ UNCHANGED <<files, isMerging, mergeProgress, errorMessage, numbering>>
    /\ UNCHANGED <<draggedIndex, lastAlert>>
    /\ UNCHANGED notMerge

\* an awaited call of the codec throws: the catch of line 210
MergeFail ==
    /\ mergePc \in {"copy", "save"}
    /\ isMerging' = FALSE
    /\ lastAlert' = AlertMergeFailed
    /\ MergeEnd
    /\ UNCHANGED <<files, mergeProgress, errorMessage, numbering, mergeTimer,
                   mergeDownloads, draggedIndex>>
    /\ UNCHANGED mergeUrls
    /\ UNCHANGED notMerge

\* the callback of line 209 runs
MergeTimerFires ==
    /\ mergeTimer
    /\ mergeTimer' = FALSE
    /\ isMerging' = FALSE
    /\ UNCHANGED <<files, mergeProgress, errorMessage, numbering, mergePc,
                   mergeJob, mergeI, mergedPdf, mergeDownloads>>
    /\ UNCHANGED mergeAux
    /\ UNCHANGED notMerge

InitMerge ==
    /\ InitMergeVars
    /\ InitRangeVars
    /\ InitSplitVars
    /\ InitRotateVars
    /\ InitOcrVars
    /\ InitJpgVars
    /\ InitPpVars

\* The Merge tool with a user who does nothing else while dragging an item:
\* a drag holds the pointer from onDragStartItem to onDragEndItem.
NextMerge ==
    \/ \E newFiles \in NewFileLists : NoDragRunning /\ addFiles(newFiles)
    \/ \E id \in FileIds : NoDragRunning /\ removeFile(id)
    \/ \E id \in FileIds : \E direction \in {"up", "down"} :
            NoDragRunning /\ moveFile(id, direction)
    \/ \E id \in FileIds : \E direction \in {"up", "down"} :
            NoDragRunning /\ moveFileIgnored(id, direction)
    \/ \E index \in 0..(MaxQueue - 1) : onDragStartItem(index)
    \/ \E index \in 0..(MaxQueue - 1) : onDragOverItem(index)
    \/ onDragEndItem
    \/ NoDragRunning /\ ClearAll
    \/ NoDragRunning /\ ToggleNumbering
    \/ NoDragRunning /\ MergeTooFew
    \/ NoDragRunning /\ mergeUrls < MaxUrls /\ MergeStart
    \/ MergeCopy
    \/ MergeNumber
    \/ MergeNoNumbering
    \/ MergeSave
    \/ MergeFail
    \/ MergeTimerFires

SpecMerge == InitMerge /\ [][NextMerge]_vars

-----------------------------------------------------------------------------
(* Claims about the Merge tool, checked under SpecMerge *)

\* c[1] + ... + c[n]
RECURSIVE SumFirst(_, _)
SumFirst(c, n) == IF n = 0 THEN 0 ELSE SumFirst(c, n - 1) + c[n]

\* the number of queued documents a handleMerge call has copied
CopiedDocs == IF mergePc = "copy" THEN mergeI ELSE Len(mergeJob.pageCounts)

\* C6: concatenate copies all pages of each queued document strictly in queue
\* order into one output: the call works on the page counts [c1..ck] of the
\* queue of the click; after n documents mergedPdf has c1+...+cn pages, and
\* page j of document i sits at position c1+...+c(i-1)+j; the document that is
\* saved and downloaded holds all k documents.
C6_ConcatenateInQueueOrder ==
    /\ [](mergePc # "idle" =>
            /\ Len(mergedPdf) = SumFirst(mergeJob.pageCounts, CopiedDocs)
            /\ \A i \in 1..CopiedDocs :
                    \A j \in 0..(mergeJob.pageCounts[i] - 1) :
                        LET at == mergedPdf[SumFirst(mergeJob.pageCounts, i - 1) + j + 1]
                        IN at.doc = i - 1 /\ at.page = j)
    /\ [](mergePc = "save" => CopiedDocs = Len(mergeJob.pageCounts))
    /\ [][(mergePc = "idle" /\ mergePc' # "idle") =>
            /\ mergeJob'.pageCounts = [k \in 1..Len(files) |-> files[k].file.pageCount]
            /\ Len(files) >= 2]_vars
    /\ [][mergeDownloads' > mergeDownloads => mergePc = "save"]_vars

\* documents of 2 and 3 pages are merged into 5 pages, about to be saved
C6_Witness ==
    /\ mergePc = "save"
    /\ mergeJob.pageCounts = <<2, 3>>
    /\ Len(mergedPdf) = 5
    /\ mergedPdf[2].doc = 0 /\ mergedPdf[2].page = 1
    /\ mergedPdf[3].doc = 1 /\ mergedPdf[3].page = 0
    /\ mergedPdf[5].doc = 1 /\ mergedPdf[5].page = 2

\* the text "Page n of total"
LabelText(n, total) ==
    <<"P", "a", "g", "e", " ">> \o NumberToString(n)
        \o <<" ", "o", "f", " ">> \o NumberToString(total)

\* C7: with numbering enabled the numbering pass runs only after every queued
\* document has been copied; it labels output page i (1-based) with
\* "Page i of Total", Total the page count of the whole merged output; the
\* counter never restarts at a document boundary and every page of the saved
\* output has exactly one label (none with numbering disabled).
C7_NumberingAcrossOutput ==
    mergePc # "idle" =>
        LET total == SumFirst(mergeJob.pageCounts, Len(mergeJob.pageCounts))
            labelled == IF mergePc = "save" /\ mergeJob.enabled THEN total
                        ELSE IF mergePc = "number" /\ mergeJob.enabled THEN mergeI
                        ELSE 0
        IN /\ \A k \in 1..Len(mergedPdf) :
                   mergedPdf[k].labels =
                       IF k <= labelled THEN <<LabelText(k, total)>> ELSE <<>>
           /\ labelled > 0 => Len(mergedPdf) = total

\* documents of 2 and 3 pages are merged and numbered 1..5 of 5
C7_Witness ==
    /\ mergePc = "save"
    /\ mergeJob.enabled
    /\ mergeJob.pageCounts = <<2, 3>>
    /\ mergedPdf[3].labels = <<<<"P", "a", "g", "e", " ", "3", " ", "o", "f", " ", "5">>>>
    /\ mergedPdf[5].labels = <<<<"P", "a", "g", "e", " ", "5", " ", "o", "f", " ", "5">>>>

-----------------------------------------------------------------------------
(* Rotate tool: the files a user picks *)

\* the /Rotate entries found in the pages of the files a user starts from
StartRotations == {0, 90, 180, 270}

RotatePageCounts == {1, 2}

\* the angles of the three rotate buttons (lines 406, 414, 422)
RotateAngles == {-90, 180, 90}

\* A page of a file: rotation is its /Rotate entry.  orig and hist tell where
\* the page comes from: the rotation it had in the file the user started from
\* and the angles of the handleRotate calls it went through since.
FreshPage(r) == [rotation |-> r, orig |-> r, hist |-> <<>>]

RotateFile(type, pages) == [type |-> type, pages |-> pages]

\* the files a user starts from: PDF files, the pages of a file turned alike,
\* and a file of another type
RotateFilePool ==
    {RotateFile("application/pdf", [i \in 1..n |-> FreshPage(r)]) :
        n \in RotatePageCounts, r \in StartRotations}
        \cup {RotateFile("image/png", <<>>)}

\* the files a user can pick: those and the file downloaded last
RotateFiles ==
    RotateFilePool \cup (IF rotateOutput = NoPdf THEN {} ELSE {rotateOutput})

Mod360(angle) == angle % 360

RotatePdfInfoOf(file) ==
    [loaded |-> TRUE, pageCount |-> Len(file.pages), file |-> file]

\* Math.min(pdf.numPages, 50)
RotateThumbCount(file) == Min(Len(file.pages), THUMBNAIL_LIMIT)

\* the picture of a page as pdfjs renders it: the page turned by its rotation
RenderThumb(file, i) ==
    [page |-> i - 1, turned |-> Mod360(file.pages[i].rotation)]

-----------------------------------------------------------------------------
(* Rotate tool: handleFileChange, lines 261-304 *)

\* the finally block of handleFileChange
RotateLoadFinally ==
    /\ rotateIsProcessing' = FALSE
    /\ rotateLoadPc' = "idle"
    /\ rotateLoadFile' = NoPdf
    /\ rotateLoadThumbs' = <<>>

\* a file that is no PDF is picked: the test of line 263 fails, nothing is set
RotateLoadIgnored(file) ==
    /\ rotatePdfInfo = NoPdf
    /\ ~rotateIsProcessing
    /\ file.type # "application/pdf"
    /\ rotateCall' = "none"
    /\ UNCHANGED <<rotateState, rotateLoadPc, rotateLoadFile, rotateLoadThumbs,
                   rotatePc, rotateJob, rotateOutput, rotateDownloads>>
    /\ UNCHANGED notRotate

\* a PDF file is picked: lines 264-267, up to the first await.  The input is
\* rendered while no document is loaded and is disabled while isProcessing.
\* A download older than the file picked is not picked again.
RotateLoadStart(file) ==
    /\ rotatePdfInfo = NoPdf
    /\ ~rotateIsProcessing
    /\ file.type = "application/pdf"
    /\ rotateIsProcessing' = TRUE
    /\ rotateError' = NoError
    /\ rotateThumbnails' = <<>>
    /\ rotateSelectedPages' = <<>>
    /\ rotateLoadPc' = "decode"
    /\ rotateLoadFile' = file
    /\ rotateLoadThumbs' = <<>>
    /\ rotateCall' = "none"
    /\ rotateOutput' = NoPdf
    /\ UNCHANGED <<rotatePdfInfo, rotationProgress, rotatePc, rotateJob,
                   rotateDownloads>>
    /\ UNCHANGED notRotate

\* the document is decoded: setPdfInfo of lines 274-279
RotateLoadDecoded ==
    /\ rotateLoadPc = "decode"
    /\ rotatePdfInfo' = RotatePdfInfoOf(rotateLoadFile)
    /\ rotateLoadPc' = "thumbs"
    /\ UNCHANGED <<rotateSelectedPages, rotateThumbnails, rotateIsProcessing,
                   rotationProgress, rotateError>>
    /\ UNCHANGED <<rotateLoadFile, rotateLoadThumbs, rotatePc, rotateJob,
                   rotateCall, rotateOutput, rotateDownloads>>
    /\ UNCHANGED notRotate

\* one page is rendered and pushed: lines 287-295
RotateLoadThumb ==
    /\ rotateLoadPc = "thumbs"
    /\ Len(rotateLoadThumbs) < RotateThumbCount(rotateLoadFile)
    /\ rotateLoadThumbs' = Append(rotateLoadThumbs,
                                  RenderThumb(rotateLoadFile,
                                              Len(rotateLoadThumbs) + 1))
    /\ rotateLoadPc' = IF Len(rotateLoadThumbs) + 1 = RotateThumbCount(rotateLoadFile)
                       THEN "finish" ELSE "thumbs"
    /\ UNCHANGED rotateState
    /\ UNCHANGED <<rotateLoadFile, rotatePc, rotateJob, rotateCall,
                   rotateOutput, rotateDownloads>>
    /\ UNCHANGED notRotate

\* the loop has ended: line 296 and the finally block
RotateLoadFinish ==
    /\ rotateLoadPc = "finish"
    /\ rotateThumbnails' = rotateLoadThumbs
    /\ RotateLoadFinally
    /\ UNCHANGED <<rotatePdfInfo, rotateSelectedPages, rotationProgress,
                   rotateError>>
    /\ UNCHANGED <<rotatePc, rotateJob, rotateCall, rotateOutput,
                   rotateDownloads>>
    /\ UNCHANGED notRotate

\* decoding or rendering throws: the catch of line 298 and the finally block
RotateLoadFail ==
    /\ rotateLoadPc \in {"decode", "thumbs"}
    /\ rotateError' = ErrLoad
    /\ RotateLoadFinally
    /\ UNCHANGED <<rotatePdfInfo, rotateSelectedPages, rotateThumbnails,
                   rotationProgress>>
    /\ UNCHANGED <<rotatePc, rotateJob, rotateCall, rotateOutput,
                   rotateDownloads>>
    /\ UNCHANGED notRotate

-----------------------------------------------------------------------------
(* Rotate tool: the controls of the loaded document *)

\* the Clear button of line 371
RotateClearPdf ==
    /\ rotatePdfInfo # NoPdf
    /\ rotatePdfInfo' = NoPdf
    /\ rotateCall' = "none"
    /\ UNCHANGED <<rotateSelectedPages, rotateThumbnails, rotateIsProcessing,
                   rotationProgress, rotateError>>
    /\ UNCHANGED <<rotateLoadPc, rotateLoadFile, rotateLoadThumbs, rotatePc,
                   rotateJob, rotateOutput, rotateDownloads>>
    /\ UNCHANGED notRotate

\* togglePage(index) of lines 306-311, called from a thumbnail (line 437)
RotateTogglePage(index) ==
    /\ rotatePdfInfo # NoPdf
    /\ index < Len(rotateThumbnails)
    /\ rotateSelectedPages' = Toggled(rotateSelectedPages, index)
    /\ rotateCall' = "none"
    /\ UNCHANGED <<rotatePdfInfo, rotateThumbnails, rotateIsProcessing,
                   rotationProgress, rotateError>>
    /\ UNCHANGED <<rotateLoadPc, rotateLoadFile, rotateLoadThumbs, rotatePc,
                   rotateJob, rotateOutput, rotateDownloads>>
    /\ UNCHANGED notRotate

\* a mutant of RotateSelectAll: the pages that have a thumbnail are selected
RotateSelectAllShown ==
    /\ rotatePdfInfo # NoPdf
    /\ rotateSelectedPages' = AllPages(Len(rotateThumbnails))
    /\ rotateCall' = "none"
    /\ UNCHANGED <<rotatePdfInfo, rotateThumbnails, rotateIsProcessing,
                   rotationProgress, rotateError>>
    /\ UNCHANGED <<rotateLoadPc, rotateLoadFile, rotateLoadThumbs, rotatePc,
                   rotateJob, rotateOutput, rotateDownloads>>
    /\ UNCHANGED notRotate

\* selectAll of lines 313-318
RotateSelectAll ==
    /\ rotatePdfInfo # NoPdf
    /\ rotateSelectedPages' = AllPages(rotatePdfInfo.pageCount)
    /\ rotateCall' = "none"
    /\ UNCHANGED <<rotatePdfInfo, rotateThumbnails, rotateIsProcessing,
                   rotationProgress, rotateError>>
    /\ UNCHANGED <<rotateLoadPc, rotateLoadFile, rotateLoadThumbs, rotatePc,
                   rotateJob, rotateOutput, rotateDownloads>>
    /\ UNCHANGED notRotate

\* the Deselect All button of line 401
RotateDeselectAll ==
    /\ rotatePdfInfo # NoPdf
    /\ rotateSelectedPages' = <<>>
    /\ rotateCall' = "none"
    /\ UNCHANGED <<rotatePdfInfo, rotateThumbnails, rotateIsProcessing,
                   rotationProgress, rotateError>>
    /\ UNCHANGED <<rotateLoadPc, rotateLoadFile, rotateLoadThumbs, rotatePc,
                   rotateJob, rotateOutput, rotateDownloads>>
    /\ UNCHANGED notRotate

-----------------------------------------------------------------------------
(* Rotate tool: handleRotate, lines 320-359 *)

\* a mutant of SetRotation: the angle replaces the rotation of the page
SetRotationAbsolute(currentRotation, angle) == angle

\* lines 338-339: degrees(currentRotation + angle), stored as it is
SetRotation(currentRotation, angle) == currentRotation + angle

\* the body of the forEach of line 336 for one page
RotatedPage(page, angle) ==
    [rotation |-> SetRotation(page.rotation, angle),
     orig |-> page.orig,
     hist |-> Append(page.hist, angle)]

\* a mutant of RotatedPages: the forEach runs over all pages of the document
RotatedPagesAll(pages, selected, angle) ==
    [i \in 1..Len(pages) |-> RotatedPage(pages[i], angle)]

\* lines 334-340: the pages of the document after the forEach over the selection
RotatedPages(pages, selected, angle) ==
    [i \in 1..Len(pages) |->
        IF (i - 1) \in Range(selected) THEN RotatedPage(pages[i], angle)
        ELSE pages[i]]

\* whether every selected page can be turned once more within MaxChain
WithinChain(pages, selected) ==
    \A i \in 1..Len(pages) :
        (i - 1) \in Range(selected) => Len(pages[i].hist) < MaxChain

\* the end of a handleRotate call: the finally block of line 356
RotateFinally ==
    /\ rotateIsProcessing' = FALSE
    /\ rotatePc' = "idle"
    /\ rotateJob' = NoJob

\* a mutant of RotateEmptySelection: the return of line 324 is missing
RotateEmptySelectionNoReturn(angle) ==
    /\ rotatePdfInfo # NoPdf
    /\ ~rotateIsProcessing
    /\ rotatePc = "idle"
    /\ rotateSelectedPages = <<>>
    /\ rotateIsProcessing' = TRUE
    /\ rotationProgress' = 0
    /\ rotateError' = NoError
    /\ rotatePc' = "load"
    /\ rotateJob' = [started |-> TRUE, pdfInfo |-> rotatePdfInfo,
                     selectedPages |-> rotateSelectedPages, angle |-> angle]
    /\ rotateCall' = "emptySelection"
    /\ rotateDownloads' = 0
    /\ UNCHANGED <<rotatePdfInfo, rotateSelectedPages, rotateThumbnails>>
    /\ UNCHANGED <<rotateLoadPc, rotateLoadFile, rotateLoadThumbs, rotateOutput>>
    /\ UNCHANGED notRotate

\* handleRotate(angle) with a document and no page selected: lines 321-325
RotateEmptySelection(angle) ==
    /\ rotatePdfInfo # NoPdf
    /\ ~rotateIsProcessing
    /\ rotatePc = "idle"
    /\ rotateSelectedPages = <<>>
    /\ rotateError' = ErrRotateSelect
    /\ rotateCall' = "emptySelection"
    /\ rotateDownloads' = 0
    /\ UNCHANGED <<rotatePdfInfo, rotateSelectedPages, rotateThumbnails,
                   rotateIsProcessing, rotationProgress>>
    /\ UNCHANGED <<rotateLoadPc, rotateLoadFile, rotateLoadThumbs, rotatePc,
                   rotateJob, rotateOutput>>
    /\ UNCHANGED notRotate

\* handleRotate(angle) with pages selected: lines 327-329, up to the first
\* await.  The buttons are disabled while isProcessing; the closure of the call
\* holds pdfInfo and selectedPages of the click.
RotateStart(angle) ==
    /\ rotatePdfInfo # NoPdf
    /\ ~rotateIsProcessing
    /\ rotatePc = "idle"
    /\ rotateSelectedPages # <<>>
    /\ WithinChain(rotatePdfInfo.file.pages, rotateSelectedPages)
    /\ rotateIsProcessing' = TRUE
    /\ rotationProgress' = 0
    /\ rotateError' = NoError
    /\ rotatePc' = "load"
    /\ rotateJob' = [started |-> TRUE, pdfInfo |-> rotatePdfInfo,
                     selectedPages |-> rotateSelectedPages, angle |-> angle]
    /\ rotateCall' = "selection"
    /\ rotateDownloads' = 0
    /\ UNCHANGED <<rotatePdfInfo, rotateSelectedPages, rotateThumbnails>>
    /\ UNCHANGED <<rotateLoadPc, rotateLoadFile, rotateLoadThumbs, rotateOutput>>
    /\ UNCHANGED notRotate

\* a mutant of RotateSave: a call works on the output of the call before it
RotateSaveCumulative ==
    /\ rotatePc = "load"
    /\ rotateOutput' =
          RotateFile("application/pdf",
                     RotatedPages(IF rotateOutput = NoPdf
                                  THEN rotateJob.pdfInfo.file.pages
                                  ELSE rotateOutput.pages,
                                  rotateJob.selectedPages, rotateJob.angle))
    /\ rotateDownloads' = rotateDownloads + 1
    /\ RotateFinally
    /\ UNCHANGED <<rotatePdfInfo, rotateSelectedPages, rotateThumbnails,
                   rotationProgress, rotateError>>
    /\ UNCHANGED <<rotateLoadPc, rotateLoadFile, rotateLoadThumbs, rotateCall>>
    /\ UNCHANGED notRotate

\* the file of the closure is read and decoded, the selected pages are turned,
\* the document is saved and downloaded: lines 332-351 and the finally block
RotateSave ==
    /\ rotatePc = "load"
    /\ rotateOutput' =
          RotateFile("application/pdf",
                     RotatedPages(rotateJob.pdfInfo.file.pages,
                                  rotateJob.selectedPages, rotateJob.angle))
    /\ rotateDownloads' = rotateDownloads + 1
    /\ RotateFinally
    /\ UNCHANGED <<rotatePdfInfo, rotateSelectedPages, rotateThumbnails,
                   rotationProgress, rotateError>>
    /\ UNCHANGED <<rotateLoadPc, rotateLoadFile, rotateLoadThumbs, rotateCall>>
    /\ UNCHANGED notRotate

\* an awaited call throws: the catch of line 353 and the finally block
RotateFail ==
    /\ rotatePc = "load"
    /\ rotateError' = ErrRotate
    /\ RotateFinally
    /\ UNCHANGED <<rotatePdfInfo, rotateSelectedPages, rotateThumbnails,
                   rotationProgress>>
    /\ UNCHANGED <<rotateLoadPc, rotateLoadFile, rotateLoadThumbs, rotateCall,
                   rotateOutput, rotateDownloads>>
    /\ UNCHANGED notRotate

InitRotate ==
    /\ InitRotateVars
    /\ InitRangeVars
    /\ InitSplitVars
    /\ InitMergeVars
    /\ InitOcrVars
    /\ InitJpgVars
    /\ InitPpVars

NextRotate ==
    \/ \E file \in RotateFiles : RotateLoadIgnored(file)
    \/ \E file \in RotateFiles : RotateLoadStart(file)
    \/ RotateLoadDecoded
    \/ RotateLoadThumb
    \/ RotateLoadFinish
    \/ RotateLoadFail
    \/ RotateClearPdf
    \/ \E index \in {n - 1 : n \in RotatePageCounts} : RotateTogglePage(index)
    \/ RotateSelectAll
    \/ RotateDeselectAll
    \/ \E angle \in RotateAngles : RotateEmptySelection(angle)
    \/ \E angle \in RotateAngles : RotateStart(angle)
    \/ RotateSave
    \/ RotateFail

SpecRotate == InitRotate /\ [][NextRotate]_vars

-----------------------------------------------------------------------------
(* Claims about the Rotate tool, checked under SpecRotate *)

\* the files at hand: the one loaded, the one being loaded, the one of the
\* running call, the one downloaded last
FilesAtHand ==
    (IF rotatePdfInfo = NoPdf THEN {} ELSE {rotatePdfInfo.file})
        \cup (IF rotateLoadFile = NoPdf THEN {} ELSE {rotateLoadFile})
        \cup (IF rotateJob = NoJob THEN {} ELSE {rotateJob.pdfInfo.file})
        \cup (IF rotateOutput = NoPdf THEN {} ELSE {rotateOutput})

PagesAtHand == UNION {Range(file.pages) : file \in FilesAtHand}

RECURSIVE SumAngles(_)
SumAngles(hist) ==
    IF hist = <<>> THEN 0 ELSE hist[1] + SumAngles(Tail(hist))

\* C9: rotate-in-place is cumulative: a page that went through handleRotate
\* with +90 twice has, modulo 360, the rotation that one handleRotate with +180
\* gives the page it started as, whatever rotation it started with; in
\* general the rotation of a page is, modulo 360, the rotation it started with
\* plus the angles applied to it.
C9_RotateCumulative ==
    \A page \in PagesAtHand :
        /\ page.hist = <<90, 90>> =>
              Mod360(page.rotation) = Mod360(SetRotation(page.orig, 180))
        /\ Mod360(page.rotation) = Mod360(page.orig + SumAngles(page.hist))

\* a page that started at 270 was turned by +90 twice and is in the download
C9_Witness ==
    /\ rotateOutput # NoPdf
    /\ \E page \in Range(rotateOutput.pages) :
          /\ page.orig = 270
          /\ page.hist = <<90, 90>>
          /\ page.rotation = 450

\* C10: handleRotate with a document loaded and no page selected fails with the
\* EmptySelection message: the call sets the message, does not enter the busy
\* state, starts no work, triggers no download and leaves the loaded document
\* and the thumbnails unchanged; no handleRotate call works on an empty
\* selection.
C10_RotateEmptySelection ==
    /\ [][rotateCall' = "emptySelection" =>
            /\ rotatePdfInfo # NoPdf
            /\ rotateSelectedPages = <<>>
            /\ rotateError' = ErrRotateSelect
            /\ rotateIsProcessing = FALSE
            /\ rotateIsProcessing' = FALSE
            /\ rotatePc' = "idle"
            /\ rotateJob' = NoJob
            /\ rotateDownloads' = 0
            /\ rotateOutput' = rotateOutput
            /\ rotatePdfInfo' = rotatePdfInfo
            /\ rotateThumbnails' = rotateThumbnails
            /\ rotateSelectedPages' = rotateSelectedPages]_vars
    /\ [](rotateJob # NoJob => rotateJob.selectedPages # <<>>)

\* handleRotate has just run on a loaded document with thumbnails and no page
\* selected, after an earlier download
C10_Witness ==
    /\ rotateCall = "emptySelection"
    /\ rotateError = ErrRotateSelect
    /\ rotatePdfInfo # NoPdf
    /\ rotateThumbnails # <<>>
    /\ rotateSelectedPages = <<>>
    /\ ~rotateIsProcessing
    /\ rotateOutput # NoPdf
    /\ rotateDownloads = 0

-----------------------------------------------------------------------------
(* OCR tool: handleFileChange, lines 33-54, and the Remove button *)

\* the page counts of the PDF files a user picks
OcrPageCounts == {1, 2, 3}

OcrFiles == {[pageCount |-> n] : n \in OcrPageCounts}

\* a PDF is picked: lines 34-36, up to the first await. The file input is
\* rendered while no document is loaded and disabled while isProcessing; the
\* model follows one call at a time.
OcrLoadStart(file) ==
    /\ ocrPdfMeta = NoPdf
    /\ ~ocrIsProcessing
    /\ ocrLoadPc = "idle"
    /\ ocrError' = NoError
    /\ ocrLoadPc' = "decode"
    /\ ocrLoadFile' = file
    /\ UNCHANGED <<ocrPdfMeta, ocrIsProcessing, ocrProgress, ocrPc, ocrJob,
                   ocrI, ocrDownloads>>
    /\ UNCHANGED ocrWorkers
    /\ UNCHANGED notOcr

\* the document is decoded: lines 38-47
OcrLoadDecoded ==
    /\ ocrLoadPc = "decode"
    /\ ocrPdfMeta' = [loaded |-> TRUE, pageCount |-> ocrLoadFile.pageCount]
    /\ ocrLoadPc' = "idle"
    /\ ocrLoadFile' = NoPdf
    /\ UNCHANGED <<ocrIsProcessing, ocrProgress, ocrError, ocrPc, ocrJob,
                   ocrI, ocrDownloads>>
    /\ UNCHANGED ocrWorkers
    /\ UNCHANGED notOcr

\* decoding throws: the catch of line 48
OcrLoadFail ==
    /\ ocrLoadPc = "decode"
    /\ ocrError' = ErrOcrLoad
    /\ ocrLoadPc' = "idle"
    /\ ocrLoadFile' = NoPdf
    /\ UNCHANGED <<ocrPdfMeta, ocrIsProcessing, ocrProgress, ocrPc, ocrJob,
                   ocrI, ocrDownloads>>
    /\ UNCHANGED ocrWorkers
    /\ UNCHANGED notOcr

\* the button of line 218, disabled while isProcessing
OcrRemove ==
    /\ ocrPdfMeta # NoPdf
    /\ ~ocrIsProcessing
    /\ ocrPdfMeta' = NoPdf
    /\ UNCHANGED <<ocrIsProcessing, ocrProgress, ocrError, ocrLoadPc,
                   ocrLoadFile, ocrPc, ocrJob, ocrI, ocrDownloads>>
    /\ UNCHANGED ocrWorkers
    /\ UNCHANGED notOcr

-----------------------------------------------------------------------------
(* OCR tool: runOCR, lines 56-164 *)

\* the finally block of runOCR
OcrFinally ==
    /\ ocrIsProcessing' = FALSE
    /\ ocrProgress' = 0
    /\ ocrPc' = "idle"
    /\ ocrJob' = NoPdf
    /\ ocrI' = 0

\* the button of line 243 is clicked: lines 57-64, up to the first await. The
\* button is rendered for a loaded document and disabled while isProcessing.
OcrStart ==
    /\ ocrPdfMeta # NoPdf
    /\ ~ocrIsProcessing
    /\ ocrPc = "idle"
    /\ ocrIsProcessing' = TRUE
    /\ ocrProgress' = 0
    /\ ocrError' = NoError
    /\ ocrPc' = "worker"
    /\ ocrJob' = ocrPdfMeta
    /\ ocrI' = 0
    /\ ocrDownloads' = 0
    /\ UNCHANGED <<ocrPdfMeta, ocrLoadPc, ocrLoadFile>>
    /\ UNCHANGED ocrWorkers
    /\ UNCHANGED notOcr

\* createWorker has returned: lines 64-71
OcrWorkerReady ==
    /\ ocrPc = "worker"
    /\ ocrPc' = "load"
    /\ ocrWorkers' = ocrWorkers + 1
    /\ UNCHANGED <<ocrPdfMeta, ocrIsProcessing, ocrProgress, ocrError,
                   ocrLoadPc, ocrLoadFile, ocrJob, ocrI, ocrDownloads>>
    /\ UNCHANGED notOcr

\* the source is decoded and the output document made: lines 73-82
OcrSourceLoaded ==
    /\ ocrPc = "load"
    /\ ocrPc' = "pages"
    /\ UNCHANGED <<ocrPdfMeta, ocrIsProcessing, ocrProgress, ocrError,
                   ocrLoadPc, ocrLoadFile, ocrJob, ocrI, ocrDownloads>>
    /\ UNCHANGED ocrWorkers
    /\ UNCHANGED notOcr

\* one turn of the loop of lines 84-139
OcrPage ==
    /\ ocrPc = "pages"
    /\ ocrI < ocrJob.pageCount
    /\ ocrI' = ocrI + 1
    /\ ocrProgress' = RoundPercent(ocrI + 1, ocrJob.pageCount)
    /\ UNCHANGED <<ocrPdfMeta, ocrIsProcessing, ocrError, ocrLoadPc,
                   ocrLoadFile, ocrPc, ocrJob, ocrDownloads>>
    /\ UNCHANGED ocrWorkers
    /\ UNCHANGED notOcr

\* the loop has ended and the worker is terminated: lines 141-142
OcrTerminated ==
    /\ ocrPc = "pages"
    /\ ocrI = ocrJob.pageCount
    /\ ocrPc' = "save"
    /\ ocrWorkers' = ocrWorkers - 1
    /\ UNCHANGED <<ocrPdfMeta, ocrIsProcessing, ocrProgress, ocrError,
                   ocrLoadPc, ocrLoadFile, ocrJob, ocrI, ocrDownloads>>
    /\ UNCHANGED notOcr

\* the output is saved and downloaded: lines 144-155 and the finally block
OcrSave ==
    /\ ocrPc = "save"
    /\ ocrDownloads' = ocrDownloads + 1
    /\ OcrFinally
    /\ UNCHANGED <<ocrPdfMeta, ocrError, ocrLoadPc, ocrLoadFile>>
    /\ UNCHANGED ocrWorkers
    /\ UNCHANGED notOcr

\* an awaited call throws: the catch of line 156 and the finally block
OcrFail ==
    /\ ocrPc # "idle"
    /\ ocrError' = ErrOcr
    /\ OcrFinally
    /\ UNCHANGED <<ocrPdfMeta, ocrLoadPc, ocrLoadFile, ocrDownloads>>
    /\ UNCHANGED ocrWorkers
    /\ UNCHANGED notOcr

NextOcr ==
    \/ \E file \in OcrFiles : OcrLoadStart(file)
    \/ OcrLoadDecoded
    \/ OcrLoadFail
    \/ OcrRemove
    \/ ocrWorkers < MaxWorkers /\ OcrStart
    \/ OcrWorkerReady
    \/ OcrSourceLoaded
    \/ OcrPage
    \/ OcrTerminated
    \/ OcrSave
    \/ OcrFail

-----------------------------------------------------------------------------
(* Claims about admission, failures and sequencing *)

\* C11: in the Split tool a file above the 100MB ceiling is rejected before any
\* decode attempt: no handleFileChange call ever decodes or renders such a
\* file, and the step that sets the FileTooLarge message leaves the loaded
\* document, thumbnails, selection, range text, busy flag, progress and the
\* running calls exactly as they were.
C11_OversizeRejected ==
    /\ [](\A k \in LoadSlots : loadPc[k] # "idle" => ~loadFile[k].tooLarge)
    /\ [][(error' = ErrTooLarge /\ error # ErrTooLarge) =>
            /\ pdfInfo = NoPdf
            /\ UNCHANGED <<pdfInfo, thumbnails, selectedPages, rangeText,
                           isProcessing, progress, splitMode>>
            /\ UNCHANGED <<loadPc, loadFile, loadThumbs, splitPc, splitJob,
                           downloads>>]_vars

\* a file above the ceiling was picked after a document with a selection was
\* cleared: the message is set, thumbnails, selection and text are still there
C11_Witness ==
    /\ error = ErrTooLarge
    /\ pdfInfo = NoPdf
    /\ ~isProcessing
    /\ NoLoadRunning
    /\ Len(thumbnails) = 2
    /\ selectedPages = <<1>>
    /\ rangeText = <<"2">>

\* a file the merge queue admits: a PDF of at most 50MB
Admissible(f) == f.type = "application/pdf" /\ f.size <= 50 * 1024 * 1024

\* the admissible files of a batch, in the order given
KeepAdmissible(batch) == SelectSeq(batch, Admissible)

\* the number of PDF files of a batch that are above 50MB
OversizeCount(batch) ==
    Cardinality({k \in 1..Len(batch) :
                    batch[k].type = "application/pdf" /\ ~Admissible(batch[k])})

C13_MergeNeedsTwo ==
    /\ [](mergeJob # NoJob => Len(mergeJob.pageCounts) >= 2)
    /\ [][(mergePc = "idle" /\ mergePc' # "idle") => Len(files) >= 2]_vars
    /\ [][mergeDownloads' > mergeDownloads => Len(mergeJob.pageCounts) >= 2]_vars
    /\ [][(lastAlert' = AlertTooFew /\ lastAlert # AlertTooFew) =>
            /\ Len(files) < 2
            /\ isMerging' = FALSE
            /\ mergePc' = "idle"
            /\ mergeJob' = NoJob
            /\ UNCHANGED <<files, isMerging, mergeProgress, mergedPdf,
                           mergeTimer, mergeDownloads>>]_vars

\* handleMerge was called on a queue of one file after a merge of two files
\* had been downloaded
C13_Witness ==
    /\ lastAlert = AlertTooFew
    /\ Len(files) = 1
    /\ ~isMerging
    /\ mergePc = "idle"
    /\ mergeProgress = 100
    /\ mergeDownloads = 1

-----------------------------------------------------------------------------
(* The tools, one of them in use *)

\* The tools are components of their own and share no state: a behaviour of
\* the three is a behaviour of each.  Here one tool is used while the others
\* rest in their initial state.
InitTools ==
    /\ InitRangeVars
    /\ InitSplitVars
    /\ InitMergeVars
    /\ InitRotateVars
    /\ InitOcrVars
    /\ InitJpgVars
    /\ InitPpVars

NextTools ==
    \/ (InitMergeVars /\ InitRotateVars /\ InitOcrVars /\ NextSplit)
    \/ (InitSplitVars /\ InitRotateVars /\ InitOcrVars /\ NextMerge)
    \/ (InitSplitVars /\ InitMergeVars /\ InitOcrVars /\ NextRotate)
    \/ (InitSplitVars /\ InitMergeVars /\ InitRotateVars /\ NextOcr)

SpecTools == InitTools /\ [][NextTools]_vars

\* the pages of the output of the running handleMerge call
MergeTotal == SumFirst(mergeJob.pageCounts, Len(mergeJob.pageCounts))

\* C14: transforms fail closed: a run of extract, burst, merge or rotate has
\* triggered no download as long as it runs; the download comes with the step
\* that ends the run, after every page was processed (all the indices copied,
\* all the pages in the archive, all the documents merged and, with numbering,
\* labelled, the selected pages turned) and that step reports no failure; the
\* step that ends a run with the failure message triggers no download.
C14_FailClosed ==
    /\ [](splitPc # "idle" => downloads = 0)
    /\ [](mergePc # "idle" => mergeDownloads = 0)
    /\ [](rotatePc # "idle" => rotateDownloads = 0)
    /\ [][downloads' > downloads =>
            /\ downloads' = 1
            /\ splitPc' = "idle"
            /\ error' # ErrSplit
            /\ \/ splitPc = "extract" /\ splitIndices # <<>>
               \/ /\ splitPc = "zip"
                  /\ Len(splitZip) = splitJob.pdfInfo.pageCount]_vars
    /\ [][mergeDownloads' > mergeDownloads =>
            /\ mergeDownloads' = 1
            /\ mergePc = "save"
            /\ mergePc' = "idle"
            /\ lastAlert' # AlertMergeFailed
            /\ Len(mergedPdf) = MergeTotal
            /\ mergeJob.enabled =>
                  \A k \in 1..Len(mergedPdf) : Len(mergedPdf[k].labels) = 1]_vars
    /\ [][rotateDownloads' > rotateDownloads =>
            /\ rotateDownloads' = 1
            /\ rotatePc = "load"
            /\ rotatePc' = "idle"
            /\ rotateError' # ErrRotate]_vars
    /\ [][(splitPc # "idle" /\ splitPc' = "idle" /\ error' = ErrSplit) =>
            downloads' = 0]_vars
    /\ [][(mergePc # "idle" /\ mergePc' = "idle" /\ lastAlert' = AlertMergeFailed) =>
            mergeDownloads' = 0]_vars
    /\ [][(rotatePc # "idle" /\ rotatePc' = "idle" /\ rotateError' = ErrRotate) =>
            rotateDownloads' = 0]_vars

\* a burst of a 3-page document has failed after two pages: no download
C14_Witness ==
    /\ error = ErrSplit
    /\ splitPc = "idle"
    /\ progress = 67
    /\ downloads = 0
    /\ timers = 1

\* C15: a failed load retains no partial state: once a load of the Split or of
\* the Rotate tool has ended with the load error, the session does not show
\* the metadata of a document without the thumbnails of its pages (the first
\* 50 of them).
C15_NoPartialLoad ==
    /\ (error = ErrLoad /\ NoLoadRunning /\ pdfInfo # NoPdf) =>
          Len(thumbnails) = Min(pdfInfo.pageCount, 50)
    /\ (rotateError = ErrLoad /\ rotateLoadPc = "idle" /\ rotatePdfInfo # NoPdf) =>
          Len(rotateThumbnails) = Min(rotatePdfInfo.pageCount, 50)

\* C16: prior valid state is preserved untouched on failure in the Split tool:
\* the loaded document after a failed load is the one from before it (none:
\* the file input is there only while no document is loaded), and the step
\* that ends an extract or a burst with the failure message leaves the loaded
\* document, the thumbnails, the selection and the range text as they were.
C16_PriorStatePreserved ==
    /\ []((error = ErrLoad /\ NoLoadRunning) => pdfInfo = NoPdf)
    /\ [][(splitPc # "idle" /\ splitPc' = "idle" /\ error' = ErrSplit) =>
            UNCHANGED <<pdfInfo, thumbnails, selectedPages, rangeText>>]_vars

-----------------------------------------------------------------------------
(* The Split tool with uploads at any time the file input is rendered *)

\* The user uploads, clears, selects all pages, switches the mode and clicks
\* Split; the pending steps of the calls in flight interleave with that.
NextSplitOverlap ==
    \/ \E file \in SplitFiles : LoadStart(file)
    \/ \E k \in LoadSlots : LoadDecoded(k)
    \/ \E k \in LoadSlots : LoadThumb(k)
    \/ \E k \in LoadSlots : LoadFinish(k)
    \/ \E k \in LoadSlots : LoadFail(k)
    \/ ClearPdf
    \/ \E mode \in {"range", "all"} : SetSplitMode(mode)
    \/ selectAll
    \/ SplitStart
    \/ SplitEmptySelection
    \/ SplitResolved
    \/ SplitExtract
    \/ SplitBurstBegin
    \/ SplitBurstPage
    \/ SplitZipDownload
    \/ SplitFail
    \/ SplitTimer

SpecSplitOverlap == InitSplit /\ [][NextSplitOverlap]_vars

\* the handleFileChange and handleSplit calls in flight
LoadsInFlight == Cardinality({k \in LoadSlots : loadPc[k] # "idle"})

JobsInFlight == IF splitPc = "idle" THEN 0 ELSE 1

\* C17: operations of one Split session are strictly sequential: no load
\* starts while a load or a split job is in flight, at most one load or
\* transform is in progress in every reachable state, and the load that
\* finishes writes the thumbnails of the document that is loaded.
C17_StrictlySequential ==
    /\ [](LoadsInFlight + JobsInFlight <= 1)
    /\ [][LoadsInFlight' > LoadsInFlight =>
            LoadsInFlight + JobsInFlight = 0]_vars
    /\ [][\A k \in LoadSlots :
            (loadPc[k] = "finish" /\ loadPc'[k] = "idle") =>
                pdfInfo \in {NoPdf, PdfInfoOf(loadFile[k])}]_vars

\* C18: in the Split tool isProcessing is true in every reachable state in
\* which an extract or burst job has started and has not finished, the 500ms
\* reset of an earlier invocation firing during the job included.
C18_BusyWhileJob == splitPc # "idle" => isProcessing

\* C20: the object URL made for a download is released after use: whenever no
\* export of the Merge tool is executing, no object URL made for one of its
\* downloads is live.
C20_UrlsRevoked == mergePc = "idle" => mergeUrls = 0

-----------------------------------------------------------------------------
(* The tools with calls that go on: every awaited call returns or throws,   *)
(* every timer fires                                                        *)

\* the steps of a handleFileChange call and of a handleSplit call in flight
LoadStep(k) == LoadDecoded(k) \/ LoadThumb(k) \/ LoadFinish(k) \/ LoadFail(k)

SplitStep ==
    \/ SplitEmptySelection
    \/ SplitResolved
    \/ SplitExtract
    \/ SplitBurstBegin
    \/ SplitBurstPage
    \/ SplitZipDownload
    \/ SplitFail

\* the steps of a handleMerge call in flight
MergeStep == MergeCopy \/ MergeNumber \/ MergeNoNumbering \/ MergeSave \/ MergeFail

\* the steps of the calls of the Rotate tool in flight
RotateLoadStep ==
    RotateLoadDecoded \/ RotateLoadThumb \/ RotateLoadFinish \/ RotateLoadFail

RotateStep == RotateSave \/ RotateFail

\* the steps of the calls of the OCR tool in flight
OcrLoadStep == OcrLoadDecoded \/ OcrLoadFail

OcrStep ==
    OcrWorkerReady \/ OcrSourceLoaded \/ OcrPage \/ OcrTerminated \/ OcrSave \/ OcrFail

FairTools ==
    /\ \A k \in LoadSlots : WF_vars(LoadStep(k))
    /\ WF_vars(SplitStep)
    /\ WF_vars(SplitTimer)
    /\ WF_vars(MergeStep)
    /\ WF_vars(MergeTimerFires)
    /\ WF_vars(RotateLoadStep)
    /\ WF_vars(RotateStep)
    /\ WF_vars(OcrLoadStep)
    /\ WF_vars(OcrStep)

\* The user of the Split tool picks files, clears, selects all pages, switches
\* the mode and clicks Split.
NextSplitLive ==
    \/ \E file \in SplitFiles : NoLoadRunning /\ LoadStart(file)
    \/ \E k \in LoadSlots : LoadStep(k)
    \/ ClearPdf
    \/ \E mode \in {"range", "all"} : SetSplitMode(mode)
    \/ selectAll
    \/ SplitStart
    \/ SplitStep
    \/ SplitTimer

\* the files added one at a time: the PDF documents of one page
LiveFileLists == {<<f>> : f \in {g \in MergeFilePool : g.pageCount = 1}}

\* The user of the Merge tool adds files, clears the queue, switches the
\* numbering and clicks Merge.
NextMergeLive ==
    \/ \E newFiles \in LiveFileLists : addFiles(newFiles)
    \/ ClearAll
    \/ ToggleNumbering
    \/ MergeTooFew
    \/ mergeUrls < MaxUrls /\ MergeStart
    \/ MergeStep
    \/ MergeTimerFires

\* The user of the Rotate tool picks files, clears, selects all pages and
\* clicks a rotation.
NextRotateLive ==
    \/ \E file \in RotateFiles : RotateLoadStart(file)
    \/ RotateLoadStep
    \/ RotateClearPdf
    \/ RotateSelectAll
    \/ \E angle \in RotateAngles : RotateEmptySelection(angle)
    \/ \E angle \in RotateAngles : RotateStart(angle)
    \/ RotateStep

NextToolsLive ==
    \/ (InitMergeVars /\ InitRotateVars /\ InitOcrVars /\ NextSplitLive)
    \/ (InitSplitVars /\ InitRotateVars /\ InitOcrVars /\ NextMergeLive)
    \/ (InitSplitVars /\ InitMergeVars /\ InitOcrVars /\ NextRotateLive)
    \/ (InitSplitVars /\ InitMergeVars /\ InitRotateVars /\ NextOcr)

SpecToolsFair == InitTools /\ [][NextToolsLive]_vars /\ FairTools

\* C19: every load and every transform started in the Split, Merge, Rotate
\* and OCR tools ends, with its result or with a reported error; the busy flag
\* that is true becomes false, and a busy flag goes from false to true only
\* in the step that starts a load or a transform.
C19_EveryJobEnds ==
    /\ \A k \in LoadSlots : (loadPc[k] # "idle") ~> (loadPc[k] = "idle")
    /\ (splitPc # "idle") ~> (splitPc = "idle")
    /\ (mergePc # "idle") ~> (mergePc = "idle")
    /\ (rotateLoadPc # "idle") ~> (rotateLoadPc = "idle")
    /\ (rotatePc # "idle") ~> (rotatePc = "idle")
    /\ (ocrLoadPc # "idle") ~> (ocrLoadPc = "idle")
    /\ (ocrPc # "idle") ~> (ocrPc = "idle")
    /\ isProcessing ~> ~isProcessing
    /\ isMerging ~> ~isMerging
    /\ rotateIsProcessing ~> ~rotateIsProcessing
    /\ ocrIsProcessing ~> ~ocrIsProcessing
    /\ [][/\ \A k \in LoadSlots :
                (loadPc[k] # "idle" /\ loadPc'[k] = "idle") =>
                    (thumbnails' = loadThumbs[k] \/ error' = ErrLoad)
          /\ (splitPc # "idle" /\ splitPc' = "idle") =>
                (downloads' = downloads + 1 \/ error' \in {ErrSelect, ErrSplit})
          /\ (mergePc # "idle" /\ mergePc' = "idle") =>
                (mergeDownloads' = 1 \/ lastAlert' = AlertMergeFailed)
          /\ (rotateLoadPc # "idle" /\ rotateLoadPc' = "idle") =>
                (rotateThumbnails' = rotateLoadThumbs \/ rotateError' = ErrLoad)
          /\ (rotatePc # "idle" /\ rotatePc' = "idle") =>
                (rotateDownloads' = 1 \/ rotateError' = ErrRotate)
          /\ (ocrLoadPc # "idle" /\ ocrLoadPc' = "idle") =>
                (ocrPdfMeta' # NoPdf \/ ocrError' = ErrOcrLoad)
          /\ (ocrPc # "idle" /\ ocrPc' = "idle") =>
                (ocrDownloads' = 1 \/ ocrError' = ErrOcr)]_vars
    /\ [][/\ (~isProcessing /\ isProcessing') =>
                \/ splitPc = "idle" /\ splitPc' = "load"
                \/ \E k \in LoadSlots : loadPc[k] = "idle" /\ loadPc'[k] = "decode"
          /\ (~isMerging /\ isMerging') => (mergePc = "idle" /\ mergePc' = "copy")
          /\ (~rotateIsProcessing /\ rotateIsProcessing') =>
                \/ rotatePc = "idle" /\ rotatePc' = "load"
                \/ rotateLoadPc = "idle" /\ rotateLoadPc' = "decode"
          /\ (~ocrIsProcessing /\ ocrIsProcessing') =>
                (ocrPc = "idle" /\ ocrPc' = "worker")]_vars

\* a split job has ended with its failure reported, its timer has fired and
\* the Split tool is idle again
C19_Witness ==
    /\ splitPc = "idle"
    /\ NoLoadRunning
    /\ error = ErrSplit
    /\ timers = 0
    /\ ~isProcessing
    /\ pdfInfo # NoPdf

-----------------------------------------------------------------------------
(* Claims about thumbnails, progress and the selection *)

\* C21: in every reachable state of the Split and Rotate tools in which a
\* document is loaded, thumbnails.length <= min(pageCount, 50) and the
\* thumbnail at position i is the preview of page i of the loaded document.
C21_ThumbnailInvariant ==
    /\ pdfInfo # NoPdf =>
          /\ Len(thumbnails) <= Min(pdfInfo.pageCount, THUMBNAIL_LIMIT)
          /\ \A i \in 1..Len(thumbnails) :
                thumbnails[i] = [pageCount |-> pdfInfo.pageCount, page |-> i - 1]
    /\ rotatePdfInfo # NoPdf =>
          /\ Len(rotateThumbnails) <= Min(rotatePdfInfo.pageCount, THUMBNAIL_LIMIT)
          /\ \A i \in 1..Len(rotateThumbnails) :
                rotateThumbnails[i] = RenderThumb(rotatePdfInfo.file, i)

\* C22: while the Split tool generates thumbnails, progress does not decrease
\* from the start of the load until the last thumbnail is rendered, stays in
\* 0..100, and is 100 exactly when min(pageCount, 50) thumbnails are rendered.
C22_LoadProgress ==
    /\ [](progress \in 0..100)
    /\ [][\A k \in LoadSlots :
            (loadPc[k] \in {"decode", "thumbs"} /\ loadPc'[k] # "idle") =>
                progress' >= progress]_vars
    /\ [](\A k \in LoadSlots :
            loadPc[k] \in {"thumbs", "finish"} =>
                (progress = 100 <=> Len(loadThumbs[k]) = ThumbCount(loadFile[k])))

ValidSelection(set, pageCount) ==
    /\ \A i \in 1..Len(set) : set[i] \in 0..(pageCount - 1)
    /\ \A i, j \in 1..Len(set) : set[i] = set[j] => i = j

\* C24: in every reachable state of the Split and Rotate tools every element
\* idx of selectedPages satisfies 0 <= idx < pageCount of the document that is
\* loaded, and the set has no duplicates.
C24_SelectionValid ==
    /\ pdfInfo # NoPdf => ValidSelection(selectedPages, pdfInfo.pageCount)
    /\ rotatePdfInfo # NoPdf =>
          ValidSelection(rotateSelectedPages, rotatePdfInfo.pageCount)

\* C25: the step that starts a load empties selectedPages and the range text
\* in the Split tool and selectedPages in the Rotate tool, and nothing is
\* selected in the step in which a new document comes to be shown.
C25_SelectionReset ==
    /\ [][(\E k \in LoadSlots : loadPc[k] = "idle" /\ loadPc'[k] = "decode") =>
            (selectedPages' = <<>> /\ rangeText' = <<>>)]_vars
    /\ [][(rotateLoadPc = "idle" /\ rotateLoadPc' = "decode") =>
            rotateSelectedPages' = <<>>]_vars
    /\ [][(pdfInfo' # pdfInfo /\ pdfInfo' # NoPdf) =>
            (selectedPages' = <<>> /\ rangeText' = <<>>)]_vars
    /\ [][(rotatePdfInfo' # rotatePdfInfo /\ rotatePdfInfo' # NoPdf) =>
            rotateSelectedPages' = <<>>]_vars

-----------------------------------------------------------------------------
(* Claims about parseRangeText and the selection handlers *)

\* a decimal numeral: one digit or more and nothing else
IsNumeral(s) == s # <<>> /\ \A i \in 1..Len(s) : IsDigit(s[i])

\* the 0-based indices of the pages lo..hi that are pages of a document of
\* max pages
PagesBetween(lo, hi, max) == {i - 1 : i \in {j \in lo..hi : j >= 1 /\ j <= max}}

\* The pages a token stands for: a page number n stands for page n when
\* 1 <= n <= max; a-b, of two page numbers, for the pages between them; any
\* other token is no valid token and stands for nothing.
TokenPages(token, max) ==
    LET t == StrTrim(token)
        dashes == {k \in 1..Len(t) : t[k] = "-"}
    IN IF IsNumeral(t)
       THEN PagesBetween(DigitsPrefix(t, 0), DigitsPrefix(t, 0), max)
       ELSE IF /\ Cardinality(dashes) = 1
               /\ \A k \in dashes :
                     /\ IsNumeral(StrTrim(SubSeq(t, 1, k - 1)))
                     /\ IsNumeral(StrTrim(SubSeq(t, k + 1, Len(t))))
       THEN LET k == CHOOSE d \in dashes : TRUE
                a == DigitsPrefix(StrTrim(SubSeq(t, 1, k - 1)), 0)
                b == DigitsPrefix(StrTrim(SubSeq(t, k + 1, Len(t))), 0)
            IN PagesBetween(Min(a, b), Max(a, b), max)
       ELSE {}

\* C26: for every text and every max >= 0 parseRangeText returns a strictly
\* ascending, duplicate-free list of indices idx with 0 <= idx < max, which is
\* the union of the pages of the valid tokens: tokens that are non-numeric,
\* zero, negative or above max contribute nothing.
C26_LenientRangeSafe ==
    (rKind = "text" /\ rPc # "typed") =>
        /\ StrictlyAscending(rSet)
        /\ \A i \in 1..Len(rSet) : rSet[i] \in 0..(rMax - 1)
        /\ Range(rSet) =
              UNION {TokenPages(token, rMax) : token \in Range(StrSplit(rTyped, ","))}

\* C27: a range token a-b selects the pages between a and b inclusive
\* whichever is larger: parseRangeText("a-b", max) equals
\* parseRangeText("b-a", max) and is the list of the 0-based indices of
\* [min(a,b), max(a,b)] intersected with [1, max], a range partly inside
\* [1, max] being clipped.
C27_RangeEitherOrder ==
    (rKind = "text" /\ rPc # "typed") =>
        \A k \in 1..Len(rTyped) :
            LET left == SubSeq(rTyped, 1, k - 1)
                right == SubSeq(rTyped, k + 1, Len(rTyped))
            IN (rTyped[k] = "-" /\ IsNumeral(left) /\ IsNumeral(right)) =>
                  LET a == DigitsPrefix(left, 0)
                      b == DigitsPrefix(right, 0)
                  IN /\ rSet = AscendingOf(PagesBetween(Min(a, b), Max(a, b), rMax))
                     /\ parseRangeText(right \o <<"-">> \o left, rMax) = rSet

\* "20-1" has been parsed for a document of 11 pages: typed in descending
\* order and clipped to the pages 1..11
C27_Witness ==
    /\ rKind = "text"
    /\ rPc = "set"
    /\ rTyped = <<"2", "0", "-", "1">>
    /\ rMax = 11
    /\ rSet = <<0, 1, 2, 3, 4, 5, 6, 7, 8, 9, 10>>

\* C28: togglePage(index) in the Split tool flips the membership of index,
\* leaves the membership of every other index as it was, and sets the range
\* text to the canonical text of the resulting set; toggling the same index
\* once more gives the index set of before.
C28_ToggleFlips ==
    [][\A index \in 0..(MaxPages - 1) :
          togglePage(index) =>
              /\ (index \in Range(selectedPages')) <=> (index \notin Range(selectedPages))
              /\ Range(selectedPages') \ {index} = Range(selectedPages) \ {index}
              /\ Len(selectedPages') = Cardinality(Range(selectedPages'))
              /\ rangeText' = CanonicalText(Range(selectedPages'))
              /\ Range(Toggled(selectedPages', index)) = Range(selectedPages)]_vars

\* page 3, then page 1 have been toggled into the selection
C28_Witness ==
    /\ pdfInfo # NoPdf
    /\ selectedPages = <<2, 0>>
    /\ rangeText = <<"1", ",", " ", "3">>

\* C29: selectAll sets the selection to exactly 0..pageCount-1 of the loaded
\* document and the range text to "1-N", or "1" when N = 1, and changes
\* nothing when no document is loaded; clearSelection sets the selection to
\* the empty set and the range text to the empty text.
C29_SelectAllAndClear ==
    [][/\ selectAll =>
             /\ Range(selectedPages') = 0..(pdfInfo.pageCount - 1)
             /\ Len(selectedPages') = pdfInfo.pageCount
             /\ rangeText' = IF pdfInfo.pageCount = 1 THEN <<"1">>
                             ELSE <<"1", "-">> \o NumberToString(pdfInfo.pageCount)
       /\ selectAllNoPdf => UNCHANGED <<pdfInfo, selectedPages, rangeText>>
       /\ clearSelection => (selectedPages' = <<>> /\ rangeText' = <<>>)]_vars

\* all three pages of a document that has no thumbnail yet are selected
C29_Witness ==
    /\ pdfInfo # NoPdf
    /\ pdfInfo.pageCount = 3
    /\ thumbnails = <<>>
    /\ selectedPages = <<0, 1, 2>>
    /\ rangeText = <<"1", "-", "3">>

-----------------------------------------------------------------------------
(* Reordering the merge queue, checked under SpecReorder: queues of up to
   MaxDragQueue items, as addFiles leaves them, and the handlers that
   reorder or shorten the queue *)

MaxDragQueue == 3

\* the items of such a queue: valid documents under either id
ReorderItems ==
    {[id |-> id, file |-> f] :
        id \in FileIds,
        f \in {g \in MergeFilePool :
                  g.type = "application/pdf" /\ g.size <= MAX_FILE_SIZE_BYTES}}

InitReorder ==
    /\ files \in UNION {[1..n -> ReorderItems] : n \in 0..MaxDragQueue}
    /\ isMerging = FALSE
    /\ mergeProgress = 0
    /\ errorMessage = NoMessage
    /\ numbering = FALSE
    /\ mergePc = "idle"
    /\ mergeJob = NoJob
    /\ mergeI = 0
    /\ mergedPdf = <<>>
    /\ mergeTimer = FALSE
    /\ mergeDownloads = 0
    /\ mergeUrls = 0
    /\ draggedIndex = NoDraggedIndex
    /\ lastAlert = NoError
    /\ InitRangeVars
    /\ InitSplitVars
    /\ InitRotateVars
    /\ InitOcrVars
    /\ InitJpgVars
    /\ InitPpVars

NextReorder ==
    \/ \E id \in FileIds : NoDragRunning /\ removeFile(id)
    \/ \E id \in FileIds : \E direction \in {"up", "down"} :
            NoDragRunning /\ moveFile(id, direction)
    \/ \E id \in FileIds : \E direction \in {"up", "down"} :
            NoDragRunning /\ moveFileIgnored(id, direction)
    \/ \E index \in 0..(MaxDragQueue - 1) : onDragStartItem(index)
    \/ \E index \in 0..(MaxDragQueue - 1) : onDragOverItem(index)
    \/ onDragEndItem

SpecReorder == InitReorder /\ [][NextReorder]_vars

\* the number of positions of q that hold x
Occurrences(q, x) == Cardinality({k \in 1..Len(q) : q[k] = x})

\* q holds exactly the entries of p
SameEntries(p, q) ==
    /\ Len(p) = Len(q)
    /\ \A x \in Range(p) \cup Range(q) : Occurrences(p, x) = Occurrences(q, x)

\* q without its position k
Without(q, k) == [j \in 1..(Len(q) - 1) |-> IF j < k THEN q[j] ELSE q[j + 1]]

\* the positions of q that hold an entry of this id
PositionsOf(q, id) == {k \in 1..Len(q) : q[k].id = id}

\* the first of them
FirstOf(q, id) == CHOOSE k \in PositionsOf(q, id) : \A j \in PositionsOf(q, id) : k <= j

-----------------------------------------------------------------------------
(* Claims about the progress of a split job *)

\* C31: during a split job progress stays within 0..100 and does not decrease
\* from the start of the job until its download is triggered; in burst mode
\* it is round(k/N*100) after k of N pages and 100 after the last page; it is
\* reset to 0 only after the job has ended.
C31_SplitProgress ==
    /\ [](progress \in 0..100)
    /\ [][splitPc # "idle" => progress' >= progress]_vars
    /\ [](splitPc \in {"burst", "zip"} =>
             progress = RoundPercent(splitI, splitJob.pdfInfo.pageCount))
    /\ [](splitPc = "zip" => progress = 100)
    /\ [][(progress # 0 /\ progress' = 0) => splitPc = "idle"]_vars

-----------------------------------------------------------------------------
(* The merge queue under any order of its events, checked under SpecQueue:
   no merge is started, and nothing keeps the user from removing or clearing
   between onDragStartItem and a later onDragOverItem *)

\* files.map of lines 289-291 reads item.id of every entry: with an undefined
\* entry the render throws and the component is gone
QueueRenders == \A k \in 1..Len(files) : files[k] # UndefinedItem

NextQueue ==
    \/ \E newFiles \in NewFileLists : QueueRenders /\ addFiles(newFiles)
    \/ \E id \in FileIds : QueueRenders /\ removeFile(id)
    \/ \E id \in FileIds : \E direction \in {"up", "down"} :
            QueueRenders /\ moveFile(id, direction)
    \/ \E id \in FileIds : \E direction \in {"up", "down"} :
            QueueRenders /\ moveFileIgnored(id, direction)
    \/ QueueRenders /\ ClearAll
    \/ \E index \in 0..(MaxQueue - 1) : QueueRenders /\ onDragStartItem(index)
    \/ \E index \in 0..(MaxQueue - 1) : QueueRenders /\ onDragOverItem(index)
    \/ \E index \in 0..(MaxQueue - 1) : QueueRenders /\ onDragOverStale(index)
    \/ QueueRenders /\ onDragEndItem

SpecQueue == InitMerge /\ [][NextQueue]_vars

\* C32: after any sequence of addFiles, removeFile, moveFile, Clear All,
\* drag-start, drag-over and drag-end events, a remove or a Clear All between
\* a drag-start and a later drag-over included, every position of the queue
\* holds an admitted file entry and never an undefined one, no entry comes to
\* be in the queue twice, and the length of the queue changes only through
\* add, remove and Clear All.
C32_QueueIntegrity ==
    /\ [](\A k \in 1..Len(files) : files[k] \in ReorderItems)
    /\ [][Len(files') <= Len(files) =>
             \A x \in Range(files') :
                 Occurrences(files', x) <= Occurrences(files, x)]_vars
    /\ [][Len(files') # Len(files) =>
             \/ \E newFiles \in NewFileLists : addFiles(newFiles)
             \/ \E id \in FileIds : removeFile(id)
             \/ ClearAll]_vars

-----------------------------------------------------------------------------
(* Claims about a merge and the queue beside it, checked under SpecMerge *)

\* the number of pages of the output that come from the document at queue
\* position i of the click
PagesFrom(doc, i) == Cardinality({k \in 1..Len(doc) : doc[k].doc = i})

\* C33: a merge works on the queue as it was when the merge was started:
\* files added, removed or cleared while the merge is in flight change
\* neither the documents that are merged nor their order in the output.
C33_MergeOfQueueAtStart ==
    /\ [][(mergePc = "idle" /\ mergePc' # "idle") =>
             mergeJob'.pageCounts = [k \in 1..Len(files) |-> files[k].file.pageCount]]_vars
    /\ [][(mergePc # "idle" /\ mergePc' # "idle") => mergeJob' = mergeJob]_vars
    /\ [][(mergePc # "idle" /\ files' # files) =>
             /\ mergePc' = mergePc
             /\ mergeI' = mergeI
             /\ mergedPdf' = mergedPdf]_vars
    /\ [](mergePc \in {"number", "save"} =>
             /\ \A i \in 1..Len(mergeJob.pageCounts) :
                    PagesFrom(mergedPdf, i - 1) = mergeJob.pageCounts[i]
             /\ \A k \in 1..Len(mergedPdf) :
                    mergedPdf[k].doc \in 0..(Len(mergeJob.pageCounts) - 1)
             /\ \A k \in 1..(Len(mergedPdf) - 1) :
                    \/ mergedPdf[k + 1].doc = mergedPdf[k].doc + 1
                          /\ mergedPdf[k + 1].page = 0
                    \/ mergedPdf[k + 1].doc = mergedPdf[k].doc
                          /\ mergedPdf[k + 1].page = mergedPdf[k].page + 1)

\* the queue was cleared and filled again during a merge of documents of 1
\* and 2 pages, which is about to be saved
C33_Witness ==
    /\ mergePc = "save"
    /\ mergeJob.pageCounts = <<1, 2>>
    /\ Len(mergedPdf) = 3
    /\ Len(files) = 2
    /\ files[1].file.pageCount = 3
    /\ files[2].file.pageCount = 3

\* C34: removeFile(id) removes exactly the one queue entry carrying that id
\* and keeps the order of the other entries: the ids of the queued entries
\* are pairwise distinct, so the queue gets shorter by exactly one when the
\* id is present.
C34_RemoveExactlyOne ==
    /\ [](\A j \in 1..Len(files) : \A k \in 1..Len(files) :
             j # k => files[j].id # files[k].id)
    /\ [][\A id \in FileIds :
             removeFile(id) =>
                 /\ Len(files') = Len(files) - 1
                 /\ \E k \in PositionsOf(files, id) : files' = Without(files, k)]_vars

-----------------------------------------------------------------------------
(* Claims about the output of handleRotate, checked under SpecRotate *)

\* the step in which a handleRotate call saves and downloads its output
RotateDownloadStep == rotatePc = "load" /\ rotateDownloads' = rotateDownloads + 1

\* C35: rotate changes only the rotation of the selected pages: in the output
\* of handleRotate(angle) the page count and the page order are those of the
\* source, every selected page has the rotation of the source plus the angle,
\* and every page that is not selected keeps its rotation.
C35_RotateOnlySelected ==
    /\ [][(rotatePc = "idle" /\ rotatePc' = "load") =>
             /\ rotateJob'.pdfInfo = rotatePdfInfo
             /\ rotateJob'.selectedPages = rotateSelectedPages]_vars
    /\ [][RotateDownloadStep =>
             LET src == rotateJob.pdfInfo.file.pages
                 out == rotateOutput'.pages
                 sel == Range(rotateJob.selectedPages)
             IN /\ Len(out) = Len(src)
                /\ \A i \in 1..Len(src) :
                      /\ out[i].orig = src[i].orig
                      /\ (i - 1) \in sel =>
                            /\ out[i].rotation = src[i].rotation + rotateJob.angle
                            /\ out[i].hist = Append(src[i].hist, rotateJob.angle)
                      /\ (i - 1) \notin sel => out[i] = src[i]]_vars

\* the first page of a document of two was turned by 90 and then the second
\* one by 180, each in a call of its own
C35_Witness ==
    /\ rotateOutput # NoPdf
    /\ Len(rotateOutput.pages) = 2
    /\ rotateOutput.pages[1].hist = <<90>>
    /\ rotateOutput.pages[2].hist = <<180>>
    /\ rotateOutput.pages[1].rotation = rotateOutput.pages[1].orig + 90
    /\ rotateOutput.pages[2].rotation = rotateOutput.pages[2].orig + 180

\* a step of a handleRotate call
HandleRotateStep ==
    \/ \E angle \in RotateAngles : RotateEmptySelection(angle)
    \/ \E angle \in RotateAngles : RotateStart(angle)
    \/ RotateSave
    \/ RotateFail

\* the pages handleRotate(angle) makes of a file and a selection
TurnedFrom(file, sel, angle) ==
    [i \in 1..Len(file.pages) |->
        IF (i - 1) \in sel
        THEN [rotation |-> file.pages[i].rotation + angle,
              orig |-> file.pages[i].orig,
              hist |-> Append(file.pages[i].hist, angle)]
        ELSE file.pages[i]]

\* C36: a rotate invocation leaves the loaded source document, the
\* thumbnails and the selection unchanged; every invocation starts again from
\* the file that was loaded, so that its output depends on that file, the
\* selection and the angle only, and not on earlier invocations.
C36_RotateFromLoadedFile ==
    /\ [][HandleRotateStep =>
             UNCHANGED <<rotatePdfInfo, rotateThumbnails, rotateSelectedPages>>]_vars
    /\ [][(rotatePc = "idle" /\ rotatePc' = "load") =>
             /\ rotateJob'.pdfInfo = rotatePdfInfo
             /\ rotateJob'.selectedPages = rotateSelectedPages]_vars
    /\ [](rotateJob # NoJob /\ rotatePdfInfo # NoPdf => rotateJob.pdfInfo = rotatePdfInfo)
    /\ [][RotateDownloadStep =>
             rotateOutput'.pages = TurnedFrom(rotateJob.pdfInfo.file,
                                              Range(rotateJob.selectedPages),
                                              rotateJob.angle)]_vars

\* a call is running on the loaded file, whose pages were never turned, after
\* an earlier call gave a download of that file with its first page turned
C36_Witness ==
    /\ rotatePc = "load"
    /\ rotatePdfInfo # NoPdf
    /\ rotateJob.pdfInfo = rotatePdfInfo
    /\ rotateOutput # NoPdf
    /\ Len(rotateOutput.pages) = Len(rotatePdfInfo.file.pages)
    /\ rotateOutput.pages[1].hist = <<90>>
    /\ rotateOutput.pages[1].orig = rotatePdfInfo.file.pages[1].orig
    /\ \A i \in 1..Len(rotatePdfInfo.file.pages) :
          rotatePdfInfo.file.pages[i].hist = <<>>

-----------------------------------------------------------------------------
(* The Rotate tool with a document of more pages than thumbnails, checked
   under SpecRotateCap: a user who picks a document of THUMBNAIL_LIMIT + 1
   pages and clicks on the first and on the last thumbnail *)

CapPageCount == THUMBNAIL_LIMIT + 1

RotateCapFiles ==
    {RotateFile("application/pdf", [i \in 1..CapPageCount |-> FreshPage(r)]) :
        r \in {0, 90}}

\* the indices a user tries to toggle: the first thumbnail, the last one, and
\* the first page without a thumbnail
CapToggles == {0, THUMBNAIL_LIMIT - 1, THUMBNAIL_LIMIT}

NextRotateCap ==
    \/ \E file \in RotateCapFiles : RotateLoadStart(file)
    \/ RotateLoadDecoded
    \/ RotateLoadThumb
    \/ RotateLoadFinish
    \/ RotateLoadFail
    \/ RotateClearPdf
    \/ \E index \in CapToggles : RotateTogglePage(index)
    \/ RotateSelectAll
    \/ RotateDeselectAll
    \/ \E angle \in RotateAngles : RotateEmptySelection(angle)
    \/ \E angle \in RotateAngles : RotateStart(angle)
    \/ RotateSave
    \/ RotateFail

SpecRotateCap == InitRotate /\ [][NextRotateCap]_vars

\* C37: with a document of more than 50 pages, selectAll selects every page
\* index 0..pageCount-1, the pages without a thumbnail included, and a rotate
\* that follows applies the angle to all of them; a page without a thumbnail
\* cannot be selected or deselected by itself.
C37_SelectAllBeyondThumbnails ==
    /\ [](rotatePdfInfo # NoPdf => Len(rotateThumbnails) <= THUMBNAIL_LIMIT)
    /\ [][RotateSelectAll =>
             /\ Range(rotateSelectedPages') = 0..(rotatePdfInfo.pageCount - 1)
             /\ Len(rotateSelectedPages') = rotatePdfInfo.pageCount]_vars
    /\ [][(RotateDownloadStep
             /\ Range(rotateJob.selectedPages) = 0..(rotateJob.pdfInfo.pageCount - 1)) =>
             /\ Len(rotateOutput'.pages) = rotateJob.pdfInfo.pageCount
             /\ \A i \in 1..rotateJob.pdfInfo.pageCount :
                   rotateOutput'.pages[i].rotation =
                       rotateJob.pdfInfo.file.pages[i].rotation + rotateJob.angle]_vars
    /\ [][\A index \in THUMBNAIL_LIMIT..(CapPageCount - 1) :
             ((index \in Range(rotateSelectedPages'))
                 # (index \in Range(rotateSelectedPages))) =>
                   \/ rotateSelectedPages' = <<>>
                   \/ /\ rotatePdfInfo # NoPdf
                      /\ Range(rotateSelectedPages') = 0..(rotatePdfInfo.pageCount - 1)]_vars

\* a document of 51 pages shows 50 thumbnails, and the download holds its
\* page 51 turned by 90
C37_Witness ==
    /\ rotatePdfInfo # NoPdf
    /\ rotatePdfInfo.pageCount = CapPageCount
    /\ Len(rotateThumbnails) = THUMBNAIL_LIMIT
    /\ Len(rotateSelectedPages) = CapPageCount
    /\ rotateOutput # NoPdf
    /\ Len(rotateOutput.pages) = CapPageCount
    /\ rotateOutput.pages[CapPageCount].hist = <<90>>
    /\ rotateOutput.pages[CapPageCount].rotation =
          rotateOutput.pages[CapPageCount].orig + 90

-----------------------------------------------------------------------------
(* PDF to JPG tool: handleFileChange, lines 29-53, and the Change File button *)

\* the page counts of the PDF files a user picks
JpgPageCounts == {1, 2, 3}

JpgFiles == {[pageCount |-> n] : n \in JpgPageCounts}

jpgLoadVars == <<jpgLoadPc, jpgLoadFile>>

jpgJobVars == <<jpgPc, jpgJob, jpgI, jpgZip, jpgOutput, jpgDownloads>>

\* a PDF is picked: lines 30-33, up to the first await. The file input is
\* rendered while no document is loaded and disabled while isProcessing.
JpgLoadStart(file) ==
    /\ jpgPdfInfo = NoPdf
    /\ ~jpgIsProcessing
    /\ jpgIsProcessing' = TRUE
    /\ jpgError' = NoError
    /\ jpgLoadPc' = "decode"
    /\ jpgLoadFile' = file
    /\ UNCHANGED <<jpgPdfInfo, jpgProgress>>
    /\ UNCHANGED jpgJobVars
    /\ UNCHANGED notJpg

\* the document is decoded: lines 35-44 and the finally block
JpgLoadDecoded ==
    /\ jpgLoadPc = "decode"
    /\ jpgPdfInfo' = [loaded |-> TRUE, pageCount |-> jpgLoadFile.pageCount]
    /\ jpgIsProcessing' = FALSE
    /\ jpgLoadPc' = "idle"
    /\ jpgLoadFile' = NoPdf
    /\ UNCHANGED <<jpgProgress, jpgError>>
    /\ UNCHANGED jpgJobVars
    /\ UNCHANGED notJpg

\* decoding throws: the catch of line 45 and the finally block
JpgLoadFail ==
    /\ jpgLoadPc = "decode"
    /\ jpgError' = ErrJpgLoad
    /\ jpgIsProcessing' = FALSE
    /\ jpgLoadPc' = "idle"
    /\ jpgLoadFile' = NoPdf
    /\ UNCHANGED <<jpgPdfInfo, jpgProgress>>
    /\ UNCHANGED jpgJobVars
    /\ UNCHANGED notJpg

\* the Change File button of line 153, disabled while isProcessing
JpgChangeFile ==
    /\ jpgPdfInfo # NoPdf
    /\ ~jpgIsProcessing
    /\ jpgPdfInfo' = NoPdf
    /\ UNCHANGED <<jpgIsProcessing, jpgProgress, jpgError>>
    /\ UNCHANGED jpgLoadVars
    /\ UNCHANGED jpgJobVars
    /\ UNCHANGED notJpg

-----------------------------------------------------------------------------
(* PDF to JPG tool: convertToImages, lines 55-115 *)

\* `_page_${i}.jpg`, what follows the name of the document in the name of
\* the image of page i (line 91)
JpgFileName(i) ==
    <<"_", "p", "a", "g", "e", "_">> \o NumberToString(i) \o <<".", "j", "p", "g">>

\* the finally block of convertToImages
JpgFinally ==
    /\ jpgIsProcessing' = FALSE
    /\ jpgProgress' = 0
    /\ jpgPc' = "idle"
    /\ jpgJob' = NoPdf
    /\ jpgI' = 0
    /\ jpgZip' = <<>>

\* the button of line 173 is clicked: lines 56-59, up to the first await. The
\* button is rendered for a loaded document and disabled while isProcessing.
JpgStart ==
    /\ jpgPdfInfo # NoPdf
    /\ ~jpgIsProcessing
    /\ jpgPc = "idle"
    /\ jpgIsProcessing' = TRUE
    /\ jpgProgress' = 0
    /\ jpgError' = NoError
    /\ jpgPc' = "load"
    /\ jpgJob' = jpgPdfInfo
    /\ jpgI' = 0
    /\ jpgZip' = <<>>
    /\ jpgDownloads' = 0
    /\ UNCHANGED <<jpgPdfInfo, jpgOutput>>
    /\ UNCHANGED jpgLoadVars
    /\ UNCHANGED notJpg

\* the source is decoded, the archive and the canvas are made: lines 62-68
JpgSourceLoaded ==
    /\ jpgPc = "load"
    /\ jpgPc' = "pages"
    /\ UNCHANGED <<jpgPdfInfo, jpgIsProcessing, jpgProgress, jpgError>>
    /\ UNCHANGED jpgLoadVars
    /\ UNCHANGED <<jpgJob, jpgI, jpgZip, jpgOutput, jpgDownloads>>
    /\ UNCHANGED notJpg

\* one turn of the loop of lines 70-96: the page is rendered, canvas.toBlob
\* gives a blob or null, and only a blob is put into the archive
JpgPage(hasBlob) ==
    /\ jpgPc = "pages"
    /\ jpgI < jpgJob.pageCount
    /\ jpgZip' = IF hasBlob
                 THEN ZipFile(jpgZip, JpgFileName(jpgI + 1), <<jpgI>>)
                 ELSE jpgZip
    /\ jpgProgress' = RoundPercent(jpgI + 1, jpgJob.pageCount)
    /\ jpgI' = jpgI + 1
    /\ jpgPc' = IF jpgI + 1 < jpgJob.pageCount THEN "pages" ELSE "zip"
    /\ UNCHANGED <<jpgPdfInfo, jpgIsProcessing, jpgError>>
    /\ UNCHANGED jpgLoadVars
    /\ UNCHANGED <<jpgJob, jpgOutput, jpgDownloads>>
    /\ UNCHANGED notJpg

\* the archive is generated and downloaded: lines 98-106 and the finally block
JpgZipDownload ==
    /\ jpgPc = "zip"
    /\ jpgOutput' = jpgZip
    /\ jpgDownloads' = jpgDownloads + 1
    /\ JpgFinally
    /\ UNCHANGED <<jpgPdfInfo, jpgError>>
    /\ UNCHANGED jpgLoadVars
    /\ UNCHANGED notJpg

\* an awaited call throws, or there is no canvas context: the catch of line
\* 108 and the finally block
JpgFail ==
    /\ jpgPc \in {"load", "pages", "zip"}
    /\ jpgError' = ErrJpg
    /\ JpgFinally
    /\ UNCHANGED <<jpgPdfInfo, jpgOutput, jpgDownloads>>
    /\ UNCHANGED jpgLoadVars
    /\ UNCHANGED notJpg

NextJpg ==
    \/ \E file \in JpgFiles : JpgLoadStart(file)
    \/ JpgLoadDecoded
    \/ JpgLoadFail
    \/ JpgChangeFile
    \/ JpgStart
    \/ JpgSourceLoaded
    \/ \E hasBlob \in BOOLEAN : JpgPage(hasBlob)
    \/ JpgZipDownload
    \/ JpgFail

SpecJpg == InitTools /\ [][NextJpg]_vars

\* C38: PDF-to-JPG exports every page: for a document of N pages a run of
\* convertToImages ends with an error and no download, or downloads an
\* archive of exactly N images, image i named <name>_page_i.jpg for i = 1..N,
\* all names distinct; a page whose conversion to an image yields nothing is
\* never left out of a run that is reported as successful.
C38_EveryPageExported ==
    /\ [][jpgDownloads' > jpgDownloads =>
             /\ jpgError' = NoError
             /\ Len(jpgOutput') = jpgJob.pageCount
             /\ \A i \in 1..jpgJob.pageCount :
                   /\ jpgOutput'[i].name = JpgFileName(i)
                   /\ jpgOutput'[i].pages = <<i - 1>>
             /\ \A i \in 1..Len(jpgOutput') : \A j \in 1..Len(jpgOutput') :
                   i # j => jpgOutput'[i].name # jpgOutput'[j].name]_vars
    /\ [][(jpgPc # "idle" /\ jpgError' = ErrJpg) =>
             /\ jpgDownloads' = 0
             /\ jpgOutput' = jpgOutput]_vars

-----------------------------------------------------------------------------
(* The OCR tool by itself, checked under SpecOcr *)

SpecOcr == InitTools /\ [][NextOcr]_vars

\* C39: every OCR worker is released: each worker created by runOCR is
\* terminated before the run is reported finished (the busy flag cleared), on
\* the success path and on every failure path, so that after any sequence of
\* OCR runs no worker is left alive.
C39_WorkersReleased ==
    /\ [](ocrPc = "idle" => ocrWorkers = 0)
    /\ [][(ocrIsProcessing /\ ~ocrIsProcessing') => ocrWorkers' = 0]_vars

-----------------------------------------------------------------------------
(* Passport photo tool: the presets and generatePhoto, lines 120-307 *)

\* PRESETS of lines 120-126, sizes in millimetres
PRESETS ==
    <<[name |-> "US Passport", widthMm |-> 51, heightMm |-> 51],
      [name |-> "EU / UK", widthMm |-> 35, heightMm |-> 45],
      [name |-> "Indian Passport", widthMm |-> 51, heightMm |-> 51],
      [name |-> "Chinese Visa", widthMm |-> 33, heightMm |-> 48],
      [name |-> "Japan ID", widthMm |-> 35, heightMm |-> 45]>>

TARGET_DPI == 300

SHEET_PADDING == 20

\* sheetWidth = 4 * targetDpi and sheetHeight = 6 * targetDpi (lines 242-243)
SheetWidth == 4 * TARGET_DPI

SheetHeight == 6 * TARGET_DPI

\* Math.round(mm * mmToIn * targetDpi) with mmToIn = 1 / 25.4 (lines 212-215):
\* mm * 300 / 25.4 = mm * 3000 / 254, rounded to the nearest integer
PxOfMm(mm) == (2 * 10 * TARGET_DPI * mm + 254) \div (2 * 254)

\* a mutant of CellsAcross: the padding is left out of the count
CellsAcrossNoPadding(sheet, px) == sheet \div px

\* cols and rows of lines 274-275
CellsAcross(sheet, px) == (sheet - SHEET_PADDING) \div (px + SHEET_PADDING)

\* startX + c * (pxWidth + padding) of lines 281 and 288
CellX(c, pxWidth) == SHEET_PADDING + c * (pxWidth + SHEET_PADDING)

\* startY + r * (pxHeight + padding) of lines 282 and 289
CellY(r, pxHeight) == SHEET_PADDING + r * (pxHeight + SHEET_PADDING)

\* the photos drawn by the loops of lines 277-294, in the order drawn
SheetCells(pxWidth, pxHeight) ==
    LET cols == CellsAcross(SheetWidth, pxWidth)
        rows == CellsAcross(SheetHeight, pxHeight)
    IN [k \in 1..(rows * cols) |->
           LET r == (k - 1) \div cols
               c == (k - 1) % cols
           IN [r |-> r, c |-> c,
               x |-> CellX(c, pxWidth), y |-> CellY(r, pxHeight),
               width |-> pxWidth, height |-> pxHeight]]

\* an image is picked and cropped: image and croppedAreaPixels are set
PpSetImage ==
    /\ ~ppImage
    /\ ppImage' = TRUE
    /\ UNCHANGED <<ppSelectedPreset, ppIsProcessing, ppPc, ppJob, ppOutput>>
    /\ UNCHANGED notPp

\* a preset button of line 424
PpSelectPreset(k) ==
    /\ ppSelectedPreset # k
    /\ ppSelectedPreset' = k
    /\ UNCHANGED <<ppImage, ppIsProcessing, ppPc, ppJob, ppOutput>>
    /\ UNCHANGED notPp

\* generatePhoto(mode), lines 201-206, up to the first await; the buttons of
\* lines 478 and 485 are disabled while isProcessing
PpStart(mode) ==
    /\ ppImage
    /\ ~ppIsProcessing
    /\ ppPc = "idle"
    /\ ppIsProcessing' = TRUE
    /\ ppPc' = "image"
    /\ ppJob' = [started |-> TRUE, preset |-> PRESETS[ppSelectedPreset],
                 mode |-> mode]
    /\ UNCHANGED <<ppImage, ppSelectedPreset, ppOutput>>
    /\ UNCHANGED notPp

\* the finally block of line 304
PpFinally ==
    /\ ppIsProcessing' = FALSE
    /\ ppPc' = "idle"
    /\ ppJob' = NoJob

\* the image is loaded and the canvas drawn and downloaded: lines 206-300
PpDrawn ==
    /\ ppPc = "image"
    /\ LET pxWidth == PxOfMm(ppJob.preset.widthMm)
           pxHeight == PxOfMm(ppJob.preset.heightMm)
       IN ppOutput' =
             IF ppJob.mode = "single"
             THEN [kind |-> "single", width |-> pxWidth, height |-> pxHeight,
                   cells |-> <<>>]
             ELSE [kind |-> "sheet", width |-> SheetWidth, height |-> SheetHeight,
                   cells |-> SheetCells(pxWidth, pxHeight)]
    /\ PpFinally
    /\ UNCHANGED <<ppImage, ppSelectedPreset>>
    /\ UNCHANGED notPp

\* createImage rejects: the catch of line 301, whose alert is not kept
PpFail ==
    /\ ppPc = "image"
    /\ PpFinally
    /\ UNCHANGED <<ppImage, ppSelectedPreset, ppOutput>>
    /\ UNCHANGED notPp

NextPassport ==
    \/ PpSetImage
    \/ \E k \in 1..Len(PRESETS) : PpSelectPreset(k)
    \/ \E mode \in {"single", "sheet"} : PpStart(mode)
    \/ PpDrawn
    \/ PpFail

SpecPassport == InitTools /\ [][NextPassport]_vars

\* whether two photo cells have a pixel in common
CellsOverlap(a, b) ==
    /\ a.x < b.x + b.width
    /\ b.x < a.x + a.width
    /\ a.y < b.y + b.height
    /\ b.y < a.y + a.height

\* C40: for every preset, with pxWidth and pxHeight computed at 300 DPI,
\* padding 20 and a sheet of 1200 x 1800, every photo cell (r, c) with
\* r < rows and c < cols lies entirely inside the sheet with at least the
\* padding to each edge of the sheet, and no two cells overlap.
C40_SheetLayout ==
    ppOutput.kind = "sheet" =>
        /\ ppOutput.width = 1200
        /\ ppOutput.height = 1800
        /\ \E p \in 1..Len(PRESETS) :
              /\ Len(ppOutput.cells) =
                    ((1200 - 20) \div (PxOfMm(PRESETS[p].widthMm) + 20))
                        * ((1800 - 20) \div (PxOfMm(PRESETS[p].heightMm) + 20))
              /\ \A k \in 1..Len(ppOutput.cells) :
                    /\ ppOutput.cells[k].width = PxOfMm(PRESETS[p].widthMm)
                    /\ ppOutput.cells[k].height = PxOfMm(PRESETS[p].heightMm)
        /\ Len(ppOutput.cells) > 0
        /\ \A k \in 1..Len(ppOutput.cells) :
              LET cell == ppOutput.cells[k]
              IN /\ cell.x >= 20
                 /\ cell.y >= 20
                 /\ cell.x + cell.width <= 1200 - 20
                 /\ cell.y + cell.height <= 1800 - 20
        /\ \A j \in 1..Len(ppOutput.cells) : \A k \in 1..Len(ppOutput.cells) :
              j # k => ~CellsOverlap(ppOutput.cells[j], ppOutput.cells[k])

\* the sheet of the Chinese Visa preset, 390 x 567 pixels a photo, is
\* downloaded: two columns and three rows, the last photo ending at 1761
C40_Witness ==
    /\ ppOutput.kind = "sheet"
    /\ Len(ppOutput.cells) = 6
    /\ ppOutput.cells[6].r = 2
    /\ ppOutput.cells[6].c = 1
    /\ ppOutput.cells[6].width = 390
    /\ ppOutput.cells[6].height = 567
    /\ ppOutput.cells[6].y + ppOutput.cells[6].height = 1761

=============================================================================
